---- MODULE Spec2Model ----
(***************************************************************************)
(* The chat-completions endpoint of the mock OpenAI server: the request    *)
(* validation of src/src/server.js, and the one-shot and streaming         *)
(* responders of src/src/impls/chat.js with their content transforms.      *)
(*                                                                         *)
(* Conventions.  A JavaScript value that may be undefined or null is a     *)
(* sequence: <<>> when it is absent, <<v>> when it is v.  A JavaScript     *)
(* string that the code indexes is a sequence of one-character strings.    *)
(* Numbers are integers: the code only compares the numeric knobs.         *)
(***************************************************************************)
EXTENDS Integers, Sequences, FiniteSets, TLC

VARIABLES
    pc,              \* "idle" | "received" | "streaming" | "done"
    req,             \* the request body and headers as received
    destroyed,       \* res.destroyed: the peer closed the connection
    responseClosed,  \* the handler's responseClosed flag
    writableEnded,   \* res.writableEnded
    headersSent,     \* res.headersSent
    statusCode,      \* the status of the response, 0 while none was chosen
    body,            \* the body of a non-streamed response, <<>> while none
    frames,          \* the SSE frames written to the transport, in order
    st,              \* the closure of streamResponse
    calls,           \* how often each callback and the generator ran
    gen,             \* what the generator returned, call by call
    applied,         \* a call of a content function on its own: arguments, result
    params,          \* the parameters the handler passed to the responder
    streams,         \* the streaming requests in progress together, one record each
    inFlightRequests, \* the counter of the metrics middleware, one for the process
    embedding        \* an exchange of POST /v1/embeddings: the request, what came of it

vars == <<pc, req, destroyed, responseClosed, writableEnded, headersSent,
          statusCode, body, frames, st, calls, gen, applied, params, streams,
          inFlightRequests, embedding>>

(***************************************************************************)
(* Bounds of the model.                                                    *)
(***************************************************************************)
\* A request differs from a base request in at most this many fields.
MaxDeviations == 2
\* modelConfig.maxTokens of the one configured chat model (config.yaml).
ModelMaxTokens == 4
\* The content functions are applied to every string of at most this length.
MaxContentLen == 3
\* A stop sequence has at most this many characters.
MaxStopLen == 2
\* applyStopSequences is applied to lists of at most this many stop sequences.
MaxStops == 2
\* How many streaming requests are in progress together.
MaxStreams == 2
\* embeddingModelConfigs: the words a model takes in one input string, and
\* the integers in one input array.
MaxInputTokens == 2
MaxDimensions == 2
\* The input of an embeddings request is an array of at most this many items.
MaxInputs == 2

-----------------------------------------------------------------------------
(***************************************************************************)
(* JavaScript values.                                                      *)
(***************************************************************************)
Absent == <<>>
Some(v) == <<v>>

\* if(x) for a number that may be undefined: undefined and 0 are falsy.
TruthyNum(x) == x # Absent /\ x[1] # 0

\* a || b for two numbers that may be undefined.
OrElse(a, b) == IF TruthyNum(a) THEN a ELSE b

\* a > b where a may be undefined: undefined compares false with everything.
GreaterThan(a, b) == a # Absent /\ a[1] > b

Min(a, b) == IF a <= b THEN a ELSE b
Max(a, b) == IF a >= b THEN a ELSE b

-----------------------------------------------------------------------------
(***************************************************************************)
(* The requests.                                                           *)
(***************************************************************************)
AvailableModels == {"mock-chat"}

ToolF == [type |-> "function", function |-> [name |-> "f"]]

NoToolChoice ==
    [kind |-> "absent", str |-> "", hasType |-> FALSE, hasFunction |-> FALSE,
     hasName |-> FALSE, name |-> ""]
StringToolChoice(s) == [NoToolChoice EXCEPT !.kind = "string", !.str = s]
\* {type: 'function', function: {name: nm}}
ObjectToolChoice(nm) ==
    [kind |-> "object", str |-> "", hasType |-> TRUE, hasFunction |-> TRUE,
     hasName |-> TRUE, name |-> nm]

NoResponseFormat ==
    [kind |-> "absent", hasType |-> FALSE, type |-> "", hasSchema |-> FALSE]
ResponseFormat(t, withSchema) ==
    [kind |-> "object", hasType |-> TRUE, type |-> t, hasSchema |-> withSchema]

NoStop == [kind |-> "absent", val |-> <<>>]
ScalarStop(s) == [kind |-> "scalar", val |-> <<s>>]
ListStop(l) == [kind |-> "list", val |-> l]

TextMessage(s) == [role |-> "user", content |-> [kind |-> "string", text |-> s, parts |-> <<>>]]
PartsMessage(p) == [role |-> "user", content |-> [kind |-> "array", text |-> <<>>, parts |-> p]]

\* A valid one-shot request that sets nothing optional; the base requests
\* are this one and the same with stream: true.
BaseRequest ==
    [auth                  |-> TRUE,
     model                 |-> Some("mock-chat"),
     messages              |-> Some(<<TextMessage(<<"h", "i">>)>>),
     tools                 |-> Absent,
     tool_choice           |-> NoToolChoice,
     stream                |-> FALSE,
     stream_options        |-> Absent,
     max_tokens            |-> Absent,
     max_completion_tokens |-> Absent,
     temperature           |-> Absent,
     top_p                 |-> Absent,
     frequency_penalty     |-> Absent,
     presence_penalty      |-> Absent,
     stop                  |-> NoStop,
     n                     |-> Absent,
     response_format       |-> NoResponseFormat]

\* The other values each field of a request but stream takes.
Alternatives ==
    [auth                  |-> {FALSE},
     model                 |-> {Absent, Some("gpt-unknown")},
     messages              |-> {Absent,
                                Some(<<TextMessage(<<"h">>),
                                       PartsMessage(<<[type |-> "text", text |-> <<"y", "o">>],
                                                      [type |-> "image_url", text |-> <<>>]>>)>>)},
     tools                 |-> {Some(<<>>), Some(<<ToolF>>)},
     tool_choice           |-> {StringToolChoice("none"), StringToolChoice("auto"),
                                StringToolChoice("required"), StringToolChoice("any"),
                                ObjectToolChoice("f"), ObjectToolChoice("g"),
                                ObjectToolChoice(""),
                                [ObjectToolChoice("f") EXCEPT !.hasFunction = FALSE,
                                                              !.hasName = FALSE]},
     stream_options        |-> {Some([include_usage |-> FALSE]),
                                Some([include_usage |-> TRUE])},
     max_tokens            |-> {Some(0), Some(1), Some(ModelMaxTokens),
                                Some(ModelMaxTokens + 1)},
     max_completion_tokens |-> {Some(2), Some(ModelMaxTokens + 1)},
     temperature           |-> {Some(-1), Some(0), Some(1), Some(2)},
     top_p                 |-> {Some(-1), Some(0), Some(1), Some(2)},
     frequency_penalty     |-> {Some(-3), Some(-2), Some(0), Some(2), Some(3)},
     presence_penalty      |-> {Some(-3), Some(-2), Some(0), Some(2), Some(3)},
     stop                  |-> {ScalarStop(<<"b">>), ScalarStop(<<>>), ListStop(<<>>),
                                ListStop(<<<<"b">>, <<" ">>>>),
                                ListStop(<<<<"x">>, <<"y">>, <<"z">>, <<"b">>>>),
                                ListStop(<<<<"x">>, <<"y">>, <<"z">>, <<"w">>, <<"b">>>>)},
     n                     |-> {Some(-1), Some(0), Some(1), Some(2)},
     response_format       |-> {ResponseFormat("text", FALSE),
                                ResponseFormat("json_object", FALSE),
                                ResponseFormat("json_schema", TRUE),
                                ResponseFormat("json_schema", FALSE),
                                [NoResponseFormat EXCEPT !.kind = "object"]}]

\* The fields in the order the deviations are drawn.
FieldSeq ==
    <<"auth", "model", "messages", "tools", "tool_choice", "stream_options",
      "max_tokens", "max_completion_tokens", "temperature", "top_p",
      "frequency_penalty", "presence_penalty", "stop", "n", "response_format">>

\* The request received is r, or r with at most k of the fields after the
\* i-th changed.
RECURSIVE ReceiveFrom(_, _, _)
ReceiveFrom(r, k, i) ==
    \/ req' = Some(r)
    \/ /\ k > 0
       /\ \E j \in (i + 1)..Len(FieldSeq) :
          \E v \in Alternatives[FieldSeq[j]] :
              ReceiveFrom([r EXCEPT ![FieldSeq[j]] = v], k - 1, j)

-----------------------------------------------------------------------------
(***************************************************************************)
(* The validation of POST /v1/chat/completions (server.js).                *)
(***************************************************************************)
\* checkAuth with a configured key list: the header carries a valid key or not.
checkAuth(b) == b.auth

\* const maxTokens = maxTokensNew || maxTokensOld
MaxTokensOf(b) == OrElse(b.max_completion_tokens, b.max_tokens)

\* if(stopSequences): a non-empty string or any array.
TruthyStop(s) == s.kind = "list" \/ (s.kind = "scalar" /\ s.val[1] # <<>>)

\* The tool names of tools.map(t => t?.function?.name ?? '').
ToolNames(tools) == {tools[i].function.name : i \in 1..Len(tools)}

Passed == [status |-> 200, check |-> "", message |-> ""]
Rejected(check, message) == [status |-> 400, check |-> check, message |-> message]
\* tools.map on an undefined tools throws inside the async handler.
Thrown == [status |-> -1, check |-> "tool_choice", message |-> "TypeError"]

\* The tool_choice check, the last one.
ValidateToolChoice(b) ==
    LET tc == b.tool_choice
    IN  IF tc.kind = "string"
        THEN IF tc.str \notin {"none", "auto", "required"}
             THEN Rejected("tool_choice", "Invalid 'tool_choice' specified")
             ELSE IF tc.str # "none" /\ (b.tools = Absent \/ Len(b.tools[1]) = 0)
             THEN Rejected("tool_choice", "Please provide tool definitions")
             ELSE Passed
        ELSE IF tc.kind = "absent"
        THEN Passed
        \* !toolChoice['type'] === 'function' compares a boolean with a string:
        \* it is false for every tool_choice, so the type is not looked at.
        ELSE IF ~tc.hasType \/ FALSE \/ ~tc.hasFunction \/ ~tc.hasName
        THEN Rejected("tool_choice", "Invalid 'tool_choice' definition")
        ELSE IF tc.name = ""
        THEN Rejected("tool_choice", "No function name specified in 'tool_choice'")
        ELSE IF b.tools = Absent
        THEN Thrown
        ELSE IF tc.name \notin ToolNames(b.tools[1])
        THEN Rejected("tool_choice", "Required tool/function not found in provided tools")
        ELSE Passed

\* The response_format check.  !'json_schema' in responseFormat is
\* (false in responseFormat): the branch that rejects is never taken.
ValidateResponseFormat(b) ==
    LET rf == b.response_format
    IN  IF rf.kind = "object" /\ rf.hasType /\ rf.type = "json_schema" /\ FALSE
        THEN Rejected("response_format", "Please specify json schema")
        ELSE Passed

\* A faulty variant of ValidateN: n > 1 is let through when streaming.
ValidateNWithoutStreamCheck(b) ==
    IF TruthyNum(b.n) /\ b.n[1] < 1
    THEN Rejected("n", "'n' should be greater than 0")
    ELSE Passed

\* The n check.
ValidateN(b) ==
    IF TruthyNum(b.n)
    THEN IF b.n[1] < 1
         THEN Rejected("n", "'n' should be greater than 0")
         ELSE IF b.n[1] > 1 /\ b.stream
         THEN Rejected("n", "For streaming, 'n' should not be greater than 1")
         ELSE Passed
    ELSE Passed

\* A faulty variant of OutOfRange: the lower limit is not tested.
OutOfRangeAboveOnly(knob, lo, hi) == TruthyNum(knob) /\ knob[1] > hi

\* if(knob) { if(knob < lo || knob > hi) return 400 }: the test the handler
\* makes of each of its four numeric knobs.
OutOfRange(knob, lo, hi) == TruthyNum(knob) /\ (knob[1] < lo \/ knob[1] > hi)

\* A faulty variant of ValidateStop: a list of five is let through.
ValidateStopUpToFive(b) ==
    IF TruthyStop(b.stop) /\ b.stop.kind = "list" /\ Len(b.stop.val) > 5
    THEN Rejected("stop", "Only 4 stop sequences are allowed")
    ELSE Passed

\* The stop check.
ValidateStop(b) ==
    IF TruthyStop(b.stop) /\ b.stop.kind = "list" /\ Len(b.stop.val) > 4
    THEN Rejected("stop", "Only 4 stop sequences are allowed")
    ELSE Passed

\* A faulty variant of ValidateStreamOptions: stream is not looked at.
ValidateStreamOptionsWithoutStream(b) == Passed

\* The stream_options check: if(streamOptions) { if(!stream) return 400 }.
ValidateStreamOptions(b) ==
    IF b.stream_options # Absent /\ ~b.stream
    THEN Rejected("stream_options", "'stream_options' can only be specified if 'stream' is true")
    ELSE Passed

\* The checks in the order of the handler; the first that fails answers.
Validate(b) ==
    IF ~checkAuth(b)
    THEN [status |-> 401, check |-> "auth", message |-> "Unauthorized"]
    ELSE IF OutOfRange(b.temperature, 0, 1)
    THEN Rejected("temperature", "'temperature' can only be between 0 and 1")
    ELSE IF OutOfRange(b.top_p, 0, 1)
    THEN Rejected("top_p", "'top_p' can only be between 0 and 1")
    ELSE IF OutOfRange(b.frequency_penalty, -2, 2)
    THEN Rejected("frequency_penalty", "'frequency_penalty' can only be between -2 and 2")
    ELSE IF OutOfRange(b.presence_penalty, -2, 2)
    THEN Rejected("presence_penalty", "'presence_penalty' can only be between -2 and 2")
    ELSE IF ValidateStop(b).status # 200
    THEN ValidateStop(b)
    ELSE IF b.model = Absent \/ b.model[1] \notin AvailableModels
    THEN Rejected("model", "Model is not available")
    ELSE IF GreaterThan(MaxTokensOf(b), ModelMaxTokens)
    THEN Rejected("max_tokens", "Model only supports fewer tokens")
    ELSE IF ValidateStreamOptions(b).status # 200
    THEN ValidateStreamOptions(b)
    ELSE IF ValidateN(b).status # 200
    THEN ValidateN(b)
    ELSE IF ValidateResponseFormat(b).status # 200
    THEN ValidateResponseFormat(b)
    ELSE ValidateToolChoice(b)

\* A faulty variant of WithDefault: every default is 0.
WithDefaultZero(knob, default) == IF TruthyNum(knob) THEN knob[1] ELSE 0

\* if(knob) { ... } else { knob = default }
WithDefault(knob, default) == IF TruthyNum(knob) THEN knob[1] ELSE default

\* The parameters the handler passes on once every check passed.
Normalize(b) ==
    [model            |-> b.model,
     messages         |-> b.messages,
     tools            |-> b.tools,
     toolChoice       |-> b.tool_choice,
     stream           |-> b.stream,
     maxTokens        |-> MaxTokensOf(b),
     temperature      |-> WithDefault(b.temperature, 0),
     topP             |-> WithDefault(b.top_p, 1),
     frequencyPenalty |-> WithDefault(b.frequency_penalty, 0),
     presencePenalty  |-> WithDefault(b.presence_penalty, 0),
     stopSequences    |-> IF TruthyStop(b.stop) THEN b.stop.val ELSE <<>>,
     numGenerations   |-> IF TruthyNum(b.n) THEN b.n[1] ELSE 1,
     addExtraUsageOnlyChunk |->
         b.stream_options # Absent /\ b.stream_options[1].include_usage,
     isJsonOutput     |-> b.response_format.kind = "object" /\ b.response_format.hasType
                          /\ b.response_format.type \in {"json_object", "json_schema"}]

-----------------------------------------------------------------------------
(***************************************************************************)
(* Strings (chat.js works on them with indexOf, substring, slice, split).  *)
(***************************************************************************)
\* t occurs in s at the 0-based position i.
OccursAt(s, t, i) == i + Len(t) <= Len(s) /\ SubSeq(s, i + 1, i + Len(t)) = t

\* s.indexOf(t): the first position of t in s, -1 when there is none.
IndexOf(s, t) ==
    IF \E i \in 0..Len(s) : OccursAt(s, t, i)
    THEN CHOOSE i \in 0..Len(s) :
             OccursAt(s, t, i) /\ \A j \in 0..(i - 1) : ~OccursAt(s, t, j)
    ELSE -1

\* s.slice(0, n): a negative n counts from the end.
Slice(s, n) ==
    IF n >= 0 THEN SubSeq(s, 1, Min(n, Len(s)))
              ELSE SubSeq(s, 1, Max(Len(s) + n, 0))

\* \s of a regular expression, on the characters the model uses.
IsSpace(c) == c \in {" ", "\t", "\n"}

\* word.toLowerCase(), character by character.
LowerChar(c) == IF c = "A" THEN "a" ELSE IF c = "B" THEN "b" ELSE c
toLowerCase(w) == [i \in 1..Len(w) |-> LowerChar(w[i])]

\* input.split(/\s+/): a run of white space separates two words, and a
\* leading or trailing run leaves an empty word at that end.
RECURSIVE SplitFrom(_, _, _, _)
SplitFrom(s, i, cur, out) ==
    IF i > Len(s) THEN Append(out, cur)
    ELSE IF IsSpace(s[i])
         THEN IF i > 1 /\ IsSpace(s[i - 1])
              THEN SplitFrom(s, i + 1, cur, out)
              ELSE SplitFrom(s, i + 1, <<>>, Append(out, cur))
         ELSE SplitFrom(s, i + 1, Append(cur, s[i]), out)

split(s) == SplitFrom(s, 1, <<>>, <<>>)

\* words.join(' ')
RECURSIVE join(_)
join(words) ==
    IF words = <<>> THEN <<>>
    ELSE IF Len(words) = 1 THEN words[1]
    ELSE words[1] \o <<" ">> \o join(Tail(words))

\* const wordFrequency = {} and const wordPresence = {}: an object literal
\* inherits the properties of Object.prototype, so the lookup of such a word
\* finds a function and not a count, and the count kept for it is a string
\* that no arithmetic turns into a number.  "constructor" stands for them.
Constructor == <<"c", "o", "n", "s", "t", "r", "u", "c", "t", "o", "r">>
InheritedKeys == {Constructor}

\* How many of words[1..upto] satisfy same(_, w).
CountLower(words, upto, w) ==
    Cardinality({j \in 1..upto : toLowerCase(words[j]) = toLowerCase(w)})
CountExact(words, w) ==
    Cardinality({j \in 1..Len(words) : words[j] = w})

-----------------------------------------------------------------------------
(***************************************************************************)
(* The content transforms (chat.js).                                       *)
(***************************************************************************)
\* reduce((a, b) => a.length <= b.length ? a : b, content)
RECURSIVE ReduceShortest(_, _)
ReduceShortest(a, rest) ==
    IF rest = <<>> THEN a
    ELSE ReduceShortest(IF Len(a) <= Len(Head(rest)) THEN a ELSE Head(rest), Tail(rest))

\* stopSequences.filter(...).map(...): the truncation at each stop sequence
\* that occurs, in the order of the list.
RECURSIVE Truncations(_, _)
Truncations(content, stopSequences) ==
    IF stopSequences = <<>> THEN <<>>
    ELSE LET at == IndexOf(content, Head(stopSequences))
         IN  (IF at > -1 THEN <<SubSeq(content, 1, at)>> ELSE <<>>)
             \o Truncations(content, Tail(stopSequences))

\* A faulty variant of applyStopSequences: the truncation at the first stop
\* sequence of the list that occurs is taken, not the shortest one.
applyStopSequencesFirstMatch(content, stopSequences) ==
    IF stopSequences = Absent THEN content
    ELSE LET cut == Truncations(content, stopSequences[1])
         IN  IF cut = <<>> THEN content ELSE cut[1]

\* stopSequences is null (Absent) or a list.
applyStopSequences(content, stopSequences) ==
    IF stopSequences = Absent THEN content
    ELSE ReduceShortest(content, Truncations(content, stopSequences[1]))

\* Math.random() lies in [0, 1).  A draw is in halves: 0 is 0.0, 1 is 0.5.
RandomDraws == {0, 1}

\* The words kept by the loop of applyFrequencyPenalty; rnd[i] is the draw
\* made for word i.  Every comparison with NaN is false.
RECURSIVE KeptWords(_, _, _, _)
KeptWords(words, i, frequencyPenalty, rnd) ==
    IF i > Len(words) THEN <<>>
    ELSE LET isNaN    == toLowerCase(words[i]) \in InheritedKeys
             penalty  == frequencyPenalty * (CountLower(words, i, words[i]) - 1)
             keepWord == ~isNaN /\ rnd[i] > 2 * Min(1, Max(0, penalty))
         IN  (IF keepWord \/ frequencyPenalty <= 0 THEN <<words[i]>> ELSE <<>>)
             \o KeptWords(words, i + 1, frequencyPenalty, rnd)

applyFrequencyPenalty(input, frequencyPenalty, rnd) ==
    IF input = <<>> \/ frequencyPenalty < -2 \/ frequencyPenalty > 2
    THEN input
    ELSE join(KeptWords(split(input), 1, frequencyPenalty, rnd))

applyPresencePenalty(input, presencePenalty) ==
    IF input = <<>> \/ presencePenalty < -2 \/ presencePenalty > 2
    THEN input
    ELSE LET words == split(input)
             penalizedContent ==
                 [i \in 1..Len(words) |->
                     LET occursAgain == /\ words[i] \notin InheritedKeys
                                        /\ CountExact(words, words[i]) > 1
                     IN  IF presencePenalty * (IF occursAgain THEN 1 ELSE 0) > 0
                         THEN <<>> ELSE words[i]]
         IN  join(SelectSeq(penalizedContent, LAMBDA w : w # <<>>))

updateContent(content, stopSequences, maxTokens, frequencyPenalty, presencePenalty, rnd) ==
    LET clipped   == IF TruthyNum(maxTokens) THEN Slice(content, maxTokens[1]) ELSE content
        stopped   == applyStopSequences(clipped, Some(stopSequences))
        frequency == applyFrequencyPenalty(stopped, frequencyPenalty, rnd)
    IN  applyPresencePenalty(frequency, presencePenalty)

-----------------------------------------------------------------------------
(***************************************************************************)
(* The content generator, an external collaborator: what a call of         *)
(* getResponseForChatCompletion may return.  The arguments of a tool call  *)
(* are held as their JSON text.                                            *)
(***************************************************************************)
TextPayload(s) == [hasToolCalls |-> FALSE, tool_calls |-> <<>>, content |-> s]
ToolPayload(tcs) == [hasToolCalls |-> TRUE, tool_calls |-> tcs, content |-> <<>>]
ToolCall(nm, args) == [name |-> nm, arguments |-> args]

Generated(payload) ==
    [contentOrToolCalls |-> payload, errorCode |-> Absent, errorMessage |-> ""]
GeneratorFailed ==
    [contentOrToolCalls |-> TextPayload(<<>>), errorCode |-> Some(500),
     errorMessage |-> "generator failed"]

GenOutcomes ==
    {GeneratorFailed,
     Generated(TextPayload(<<>>)),
     Generated(TextPayload(<<"a", " ", "b">>)),
     Generated(TextPayload(<<"a", " ", "A", " ", "a">>)),
     Generated([TextPayload(<<"a", "b", "c">>) EXCEPT !.hasToolCalls = TRUE]),
     Generated(ToolPayload(<<ToolCall("f", "{}")>>)),
     Generated(ToolPayload(<<ToolCall("f", "{\"a\":1}"), ToolCall("g", "{}")>>))}

\* JSON.stringify of an array whose elements are given as JSON texts.
RECURSIVE JoinJson(_)
JoinJson(texts) ==
    IF texts = <<>> THEN ""
    ELSE IF Len(texts) = 1 THEN texts[1]
    ELSE texts[1] \o "," \o JoinJson(Tail(texts))
StringifyArray(texts) == "[" \o JoinJson(texts) \o "]"

ToolJson(t) ==
    "{\"type\":\"" \o t.type \o "\",\"function\":{\"name\":\"" \o t.function.name \o "\"}}"

\* A faulty variant of IsToolResponse: the key alone decides.
IsToolResponseByKey(x) == x.hasToolCalls

\* ('tool_calls' in x) && x['tool_calls'] != null && x['tool_calls'].length > 0
\* (a tool_calls that is null and one that is [] are both the empty list here).
IsToolResponse(x) == x.hasToolCalls /\ Len(x.tool_calls) > 0

-----------------------------------------------------------------------------
(***************************************************************************)
(* The completion assembler and the prompt length (chat.js).               *)
(***************************************************************************)
RECURSIVE SumSeq(_)
SumSeq(ns) == IF ns = <<>> THEN 0 ELSE Head(ns) + SumSeq(Tail(ns))

MessageLength(m) ==
    IF m.content.kind = "array"
    THEN SumSeq([i \in 1..Len(m.content.parts) |->
                    IF m.content.parts[i].type = "text"
                    THEN Len(m.content.parts[i].text) ELSE 0])
    ELSE IF m.content.kind = "string" THEN Len(m.content.text) ELSE 0

getPromptLength(messages) ==
    IF messages = Absent THEN 0
    ELSE SumSeq([i \in 1..Len(messages[1]) |-> MessageLength(messages[1][i])])

\* getPromptLength(messages) + (tools ? JSON.stringify(tools).length : 0)
PromptTokens(messages, tools) ==
    getPromptLength(messages)
    + (IF tools # Absent
       THEN Len(StringifyArray([i \in 1..Len(tools[1]) |-> ToolJson(tools[1][i])]))
       ELSE 0)

MaxTokensMessage ==
    "Could not finish the message because max_tokens was reached. Please try again with higher max_tokens."

\* A faulty variant of processContentOrToolCalls: tool calls are accepted
\* whatever the length of their arguments.
processContentOrToolCallsUnlimited(contentOrToolCalls, stopSequences, maxTokens, frequencyPenalty, presencePenalty, rnd) ==
    IF IsToolResponse(contentOrToolCalls)
    THEN LET allArgs == [i \in 1..Len(contentOrToolCalls.tool_calls) |->
                            contentOrToolCalls.tool_calls[i].arguments]
             length  == Len(StringifyArray(allArgs))
         IN  [contentOrToolCalls |-> contentOrToolCalls, finishReason |-> "tool_calls",
              completionTokens |-> length, errorCode |-> Absent, errorMessage |-> ""]
    ELSE LET contentBefore == contentOrToolCalls.content
             updated == updateContent(contentBefore, stopSequences, maxTokens,
                                      frequencyPenalty, presencePenalty, rnd)
         IN  [contentOrToolCalls |-> [contentOrToolCalls EXCEPT !.content = updated],
              finishReason |-> IF Len(contentBefore) # Len(updated) THEN "length" ELSE "stop",
              completionTokens |-> Len(updated),
              errorCode |-> Absent, errorMessage |-> ""]

\* A faulty variant of processContentOrToolCalls: the finish reason of a text
\* is length when the content changed, whatever its length.
processContentOrToolCallsComparingContent(contentOrToolCalls, stopSequences, maxTokens, frequencyPenalty, presencePenalty, rnd) ==
    LET result == processContentOrToolCallsUnlimited(contentOrToolCalls, stopSequences,
                      maxTokens, frequencyPenalty, presencePenalty, rnd)
    IN  IF IsToolResponse(contentOrToolCalls)
        THEN IF maxTokens # Absent /\ result.completionTokens > maxTokens[1]
             THEN [result EXCEPT !.finishReason = "stop", !.completionTokens = 0,
                                 !.errorCode = Some(400), !.errorMessage = MaxTokensMessage]
             ELSE result
        ELSE [result EXCEPT !.finishReason =
                 IF contentOrToolCalls.content # result.contentOrToolCalls.content
                 THEN "length" ELSE "stop"]

processContentOrToolCalls(contentOrToolCalls, stopSequences, maxTokens, frequencyPenalty, presencePenalty, rnd) ==
    IF IsToolResponse(contentOrToolCalls)
    THEN LET allArgs == [i \in 1..Len(contentOrToolCalls.tool_calls) |->
                            contentOrToolCalls.tool_calls[i].arguments]
             length  == Len(StringifyArray(allArgs))
         IN  IF maxTokens # Absent /\ length > maxTokens[1]
             THEN [contentOrToolCalls |-> contentOrToolCalls, finishReason |-> "stop",
                   completionTokens |-> 0, errorCode |-> Some(400),
                   errorMessage |-> MaxTokensMessage]
             ELSE [contentOrToolCalls |-> contentOrToolCalls, finishReason |-> "tool_calls",
                   completionTokens |-> length, errorCode |-> Absent, errorMessage |-> ""]
    ELSE LET contentBefore == contentOrToolCalls.content
             updated == updateContent(contentBefore, stopSequences, maxTokens,
                                      frequencyPenalty, presencePenalty, rnd)
         IN  [contentOrToolCalls |-> [contentOrToolCalls EXCEPT !.content = updated],
              finishReason |-> IF Len(contentBefore) # Len(updated) THEN "length" ELSE "stop",
              completionTokens |-> Len(updated),
              errorCode |-> Absent, errorMessage |-> ""]

\* Every result the assembler may return for a payload, over the draws of
\* Math.random() in applyFrequencyPenalty (one per word).
ProcessOutcomes(payload, p) ==
    {processContentOrToolCalls(payload, p.stopSequences, p.maxTokens,
                               p.frequencyPenalty, p.presencePenalty, rnd) :
        rnd \in [1..Len(split(payload.content)) -> RandomDraws]}

-----------------------------------------------------------------------------
(***************************************************************************)
(* The response object and the callbacks the handler passes (server.js).   *)
(* A callback is a function of the response r and returns the response.    *)
(***************************************************************************)
Res ==
    [destroyed |-> destroyed, responseClosed |-> responseClosed,
     writableEnded |-> writableEnded, headersSent |-> headersSent,
     statusCode |-> statusCode, body |-> body, frames |-> frames]

\* res.status(code).send(text) and res.json(data)
Send(r, code, content) ==
    [r EXCEPT !.statusCode = code, !.body = Some(content),
              !.headersSent = TRUE, !.writableEnded = TRUE]

\* res.write(frame): the first write sends the headers with status 200.
Write(r, frame) ==
    [r EXCEPT !.frames = Append(@, frame), !.headersSent = TRUE,
              !.statusCode = IF r.headersSent THEN @ ELSE 200]

\* res.end()
End(r) == [r EXCEPT !.writableEnded = TRUE]

canWrite(r) == ~(r.responseClosed \/ r.writableEnded \/ r.destroyed)
canReply(r) == ~(r.responseClosed \/ r.writableEnded \/ r.headersSent)

ChunkFrame(chunk) == [kind |-> "chunk", chunk |-> chunk]
DoneFrame == [kind |-> "done"]
ErrorBody(field, message) == [kind |-> "error", field |-> field, message |-> message]

\* A faulty variant of onChunk: the frame is written without asking canWrite.
onChunkUnchecked(r, chunk) == Write(r, ChunkFrame(chunk))

onChunk(r, chunk) == IF ~canWrite(r) THEN r ELSE Write(r, ChunkFrame(chunk))

\* A faulty variant of onCompletion: [DONE] is written and the response ended
\* without asking canWrite.
onCompletionUnchecked(r) == End(Write(r, DoneFrame))

\* A faulty variant of onCompletion: [DONE] is written, the response not ended.
onCompletionWithoutEnd(r) == IF ~canWrite(r) THEN r ELSE Write(r, DoneFrame)

onCompletion(r) == IF ~canWrite(r) THEN r ELSE End(Write(r, DoneFrame))

onErrorStream(r, code, message) ==
    IF r.responseClosed \/ r.headersSent THEN r
    ELSE Send(r, code, ErrorBody("generation", message))

onData(r, data) == IF ~canReply(r) THEN r ELSE Send(r, 200, data)

onErrorOneShot(r, code, message) ==
    IF ~canReply(r) THEN r ELSE Send(r, code, ErrorBody("generation", message))

NoCalls == [generator |-> 0, onChunk |-> 0, onCompletion |-> 0, onError |-> 0, onData |-> 0]

-----------------------------------------------------------------------------
(***************************************************************************)
(* The streaming responder (chat.js).                                      *)
(***************************************************************************)
Usage(promptTokens, completionTokens) ==
    [prompt_tokens |-> promptTokens,
     completion_tokens |-> completionTokens,
     total_tokens |-> promptTokens + completionTokens,
     prompt_tokens_details |-> [cached_tokens |-> 0, audio_tokens |-> 0],
     completion_tokens_details |->
         [reasoning_tokens |-> 0, audio_tokens |-> 0,
          accepted_prediction_tokens |-> 0, rejected_prediction_tokens |-> 0]]

\* A faulty variant of buildResponsePart: every chunk carries the finish reason.
buildResponsePartFinishEverywhere(model, id, chunks, chunkIndex, areTheseToolChunks, finishReason, usage) ==
    [id      |-> id,
     object  |-> "chat.completion.chunk",
     model   |-> model,
     choices |-> IF chunkIndex = -1 THEN <<>>
                 ELSE <<[index |-> 0,
                         delta |-> [role |-> "assistant",
                                    content |-> IF areTheseToolChunks THEN Absent
                                                ELSE Some(chunks[chunkIndex + 1] \o <<" ">>),
                                    tool_calls |-> IF areTheseToolChunks
                                                   THEN Some(<<chunks[chunkIndex + 1]>>)
                                                   ELSE Absent],
                         finish_reason |-> Some(finishReason)]>>,
     usage   |-> usage]

\* chunkIndex = -1 is the usage-only chunk; chunks[chunkIndex] is 0-based.
buildResponsePart(model, id, chunks, chunkIndex, areTheseToolChunks, finishReason, usage) ==
    [id      |-> id,
     object  |-> "chat.completion.chunk",
     model   |-> model,
     choices |-> IF chunkIndex = -1 THEN <<>>
                 ELSE <<[index |-> 0,
                         delta |-> [role |-> "assistant",
                                    content |-> IF areTheseToolChunks THEN Absent
                                                ELSE Some(chunks[chunkIndex + 1] \o <<" ">>),
                                    tool_calls |-> IF areTheseToolChunks
                                                   THEN Some(<<chunks[chunkIndex + 1]>>)
                                                   ELSE Absent],
                         finish_reason |-> IF chunkIndex = Len(chunks) - 1
                                           THEN Some(finishReason) ELSE Absent]>>,
     usage   |-> usage]

\* A faulty variant of ChunksOf: a call id is made for each tool call.
ChunksOfWithOwnIds(contentOrToolCalls) ==
    IF IsToolResponse(contentOrToolCalls)
    THEN [idx \in 1..Len(contentOrToolCalls.tool_calls) |->
             [index |-> idx - 1, id |-> IF idx = 1 THEN "call_0" ELSE "call_1",
              type |-> "function",
              function |-> [name |-> contentOrToolCalls.tool_calls[idx].name,
                            arguments |-> contentOrToolCalls.tool_calls[idx].arguments]]]
    ELSE <<contentOrToolCalls.content>>

\* The chunks of a processed payload: one per tool call, or the whole text.
\* "call_0" is the one id streamResponse makes for all of them.
ChunksOf(contentOrToolCalls) ==
    IF IsToolResponse(contentOrToolCalls)
    THEN [idx \in 1..Len(contentOrToolCalls.tool_calls) |->
             [index |-> idx - 1, id |-> "call_0", type |-> "function",
              function |-> [name |-> contentOrToolCalls.tool_calls[idx].name,
                            arguments |-> contentOrToolCalls.tool_calls[idx].arguments]]]
    ELSE <<contentOrToolCalls.content>>

NoStream ==
    [id |-> "", model |-> Absent, chunks |-> <<>>, chunkIndex |-> 0,
     areTheseToolChunks |-> FALSE, finishReason |-> "", promptTokens |-> 0,
     completionTokens |-> 0, addExtraUsageOnlyChunk |-> FALSE]

\* The closure streamResponse builds from the processed payload.
StreamOf(p, processed) ==
    [id |-> "chatcmpl-0", model |-> p.model,
     chunks |-> ChunksOf(processed.contentOrToolCalls), chunkIndex |-> 0,
     areTheseToolChunks |-> IsToolResponse(processed.contentOrToolCalls),
     finishReason |-> processed.finishReason,
     promptTokens |-> PromptTokens(p.messages, p.tools),
     completionTokens |-> processed.completionTokens,
     addExtraUsageOnlyChunk |-> p.addExtraUsageOnlyChunk]

\* A faulty variant of EmitsUsage: the usage-only chunk follows every chunk.
EmitsUsageAfterEveryChunk(s) == s.addExtraUsageOnlyChunk

\* Whether the turn of sendData in closure s emits the usage-only chunk.
EmitsUsage(s) == s.addExtraUsageOnlyChunk /\ s.chunkIndex = Len(s.chunks) - 1

\* A faulty variant of sendData: a turn emits two content chunks, when two
\* are left, before it yields.
sendDataTwoPerTurn(s, r, c) ==
    LET Emit(s0, r0, c0) ==
            LET part  == buildResponsePart(s0.model, s0.id, s0.chunks, s0.chunkIndex,
                                           s0.areTheseToolChunks, s0.finishReason, Absent)
                usage == buildResponsePart(s0.model, s0.id, s0.chunks, -1,
                                           s0.areTheseToolChunks, s0.finishReason,
                                           Some(Usage(s0.promptTokens, s0.completionTokens)))
                r1    == onChunk(r0, part)
            IN  [st |-> [s0 EXCEPT !.chunkIndex = @ + 1],
                 res |-> IF EmitsUsage(s0) THEN onChunk(r1, usage) ELSE r1,
                 calls |-> [c0 EXCEPT !.onChunk = @ + (IF EmitsUsage(s0) THEN 2 ELSE 1)],
                 scheduled |-> TRUE]
    IN  IF s.chunkIndex >= Len(s.chunks)
        THEN [st |-> s, res |-> onCompletion(r),
              calls |-> [c EXCEPT !.onCompletion = @ + 1], scheduled |-> FALSE]
        ELSE LET first == Emit(s, r, c)
             IN  IF first.st.chunkIndex >= Len(s.chunks) THEN first
                 ELSE Emit(first.st, first.res, first.calls)

\* One turn of sendData on closure s, response r and call counts c: the
\* closure, the response and the counts after it, and whether it scheduled
\* the next turn with setImmediate.
\* A faulty variant of sendData: while the transport cannot be written to,
\* the turn re-schedules itself without advancing.
sendDataHoldingWhenClosed(s, r, c) ==
    IF s.chunkIndex >= Len(s.chunks)
    THEN [st |-> s, res |-> onCompletion(r),
          calls |-> [c EXCEPT !.onCompletion = @ + 1], scheduled |-> FALSE]
    ELSE IF ~canWrite(r)
    THEN [st |-> s, res |-> r, calls |-> c, scheduled |-> TRUE]
    ELSE LET part  == buildResponsePart(s.model, s.id, s.chunks, s.chunkIndex,
                                        s.areTheseToolChunks, s.finishReason, Absent)
             usage == buildResponsePart(s.model, s.id, s.chunks, -1,
                                        s.areTheseToolChunks, s.finishReason,
                                        Some(Usage(s.promptTokens, s.completionTokens)))
             r1    == onChunk(r, part)
         IN  [st |-> [s EXCEPT !.chunkIndex = @ + 1],
              res |-> IF EmitsUsage(s) THEN onChunk(r1, usage) ELSE r1,
              calls |-> [c EXCEPT !.onChunk = @ + (IF EmitsUsage(s) THEN 2 ELSE 1)],
              scheduled |-> TRUE]

sendData(s, r, c) ==
    IF s.chunkIndex >= Len(s.chunks)
    THEN [st |-> s, res |-> onCompletion(r),
          calls |-> [c EXCEPT !.onCompletion = @ + 1], scheduled |-> FALSE]
    ELSE LET part  == buildResponsePart(s.model, s.id, s.chunks, s.chunkIndex,
                                        s.areTheseToolChunks, s.finishReason, Absent)
             usage == buildResponsePart(s.model, s.id, s.chunks, -1,
                                        s.areTheseToolChunks, s.finishReason,
                                        Some(Usage(s.promptTokens, s.completionTokens)))
             r1    == onChunk(r, part)
         IN  [st |-> [s EXCEPT !.chunkIndex = @ + 1],
              res |-> IF EmitsUsage(s) THEN onChunk(r1, usage) ELSE r1,
              calls |-> [c EXCEPT !.onChunk = @ + (IF EmitsUsage(s) THEN 2 ELSE 1)],
              scheduled |-> TRUE]

\* A faulty variant of streamResponse: the assembler's error is not looked at.
streamResponseIgnoringAssemblerError(p, r, g, processed) ==
    IF g.errorCode # Absent
    THEN [st |-> NoStream, res |-> onErrorStream(r, g.errorCode[1], g.errorMessage),
          calls |-> [NoCalls EXCEPT !.generator = 1, !.onError = 1],
          scheduled |-> FALSE, gen |-> <<[out |-> g, processed |-> Absent]>>]
    ELSE LET first == sendData(StreamOf(p, processed), r,
                               [NoCalls EXCEPT !.generator = 1])
         IN  [st |-> first.st, res |-> first.res, calls |-> first.calls,
              scheduled |-> first.scheduled,
              gen |-> <<[out |-> g, processed |-> Some(processed)]>>]

\* streamResponse for the generator returning g and the assembler returning
\* processed: the same record as sendData, and what the generator and the
\* assembler returned.
streamResponse(p, r, g, processed) ==
    IF g.errorCode # Absent
    THEN [st |-> NoStream, res |-> onErrorStream(r, g.errorCode[1], g.errorMessage),
          calls |-> [NoCalls EXCEPT !.generator = 1, !.onError = 1],
          scheduled |-> FALSE, gen |-> <<[out |-> g, processed |-> Absent]>>]
    ELSE IF processed.errorCode # Absent
    THEN [st |-> NoStream,
          res |-> onErrorStream(r, processed.errorCode[1], processed.errorMessage),
          calls |-> [NoCalls EXCEPT !.generator = 1, !.onError = 1],
          scheduled |-> FALSE, gen |-> <<[out |-> g, processed |-> Some(processed)]>>]
    ELSE LET first == sendData(StreamOf(p, processed), r,
                               [NoCalls EXCEPT !.generator = 1])
         IN  [st |-> first.st, res |-> first.res, calls |-> first.calls,
              scheduled |-> first.scheduled,
              gen |-> <<[out |-> g, processed |-> Some(processed)]>>]

-----------------------------------------------------------------------------
(***************************************************************************)
(* The one-shot responder (chat.js).                                       *)
(***************************************************************************)
\* A faulty variant of Choice: every choice has index 0.
ChoiceIndexZero(i, processed) ==
    LET c == processed.contentOrToolCalls
    IN  [index |-> 0,
         message |->
             [role |-> "assistant",
              content |-> IF IsToolResponse(c) THEN Absent ELSE Some(c.content),
              tool_calls |->
                  IF IsToolResponse(c)
                  THEN Some([idx \in 1..Len(c.tool_calls) |->
                                [index |-> idx - 1, id |-> "call_0", type |-> "function",
                                 function |-> [name |-> c.tool_calls[idx].name,
                                               arguments |-> c.tool_calls[idx].arguments]]])
                  ELSE Absent],
         finish_reason |-> processed.finishReason]

Choice(i, processed) ==
    LET c == processed.contentOrToolCalls
    IN  [index |-> i,
         message |->
             [role |-> "assistant",
              content |-> IF IsToolResponse(c) THEN Absent ELSE Some(c.content),
              tool_calls |->
                  IF IsToolResponse(c)
                  THEN Some([idx \in 1..Len(c.tool_calls) |->
                                [index |-> idx - 1, id |-> "call_0", type |-> "function",
                                 function |-> [name |-> c.tool_calls[idx].name,
                                               arguments |-> c.tool_calls[idx].arguments]]])
                  ELSE Absent],
         finish_reason |-> processed.finishReason]

NoRun == [error |-> Absent, choices |-> <<>>, completionTokens |-> 0, gen |-> <<>>]

\* A faulty variant of GenerationLoop: every one of the numGenerations calls
\* is issued, also after an error; the first error is the one kept.
RECURSIVE GenerationLoopIssuingAll(_, _, _)
GenerationLoopIssuingAll(p, i, acc) ==
    IF ~(i < p.numGenerations)
    THEN {acc}
    ELSE UNION {
        IF g.errorCode # Absent
        THEN GenerationLoopIssuingAll(p, i + 1,
                 [acc EXCEPT !.error = IF @ # Absent THEN @
                                       ELSE Some([code |-> g.errorCode[1],
                                                  message |-> g.errorMessage]),
                             !.gen = Append(@, [out |-> g, processed |-> Absent])])
        ELSE UNION {
            GenerationLoopIssuingAll(p, i + 1,
                [acc EXCEPT !.error = IF @ # Absent \/ pr.errorCode = Absent THEN @
                                      ELSE Some([code |-> pr.errorCode[1],
                                                 message |-> pr.errorMessage]),
                            !.choices = Append(@, Choice(i, pr)),
                            !.completionTokens = pr.completionTokens,
                            !.gen = Append(@, [out |-> g, processed |-> Some(pr)])])
            : pr \in ProcessOutcomes(g.contentOrToolCalls, p)}
        : g \in GenOutcomes}

\* The generation loop from iteration i on, acc being what the iterations
\* before it left: every way it may end, over what the generator returns
\* and the draws of the assembler.  An error returns at once.
RECURSIVE GenerationLoop(_, _, _)
GenerationLoop(p, i, acc) ==
    IF ~(i < p.numGenerations)
    THEN {acc}
    ELSE UNION {
        IF g.errorCode # Absent
        THEN {[acc EXCEPT !.error = Some([code |-> g.errorCode[1], message |-> g.errorMessage]),
                          !.gen = Append(@, [out |-> g, processed |-> Absent])]}
        ELSE UNION {
            IF pr.errorCode # Absent
            THEN {[acc EXCEPT !.error = Some([code |-> pr.errorCode[1],
                                              message |-> pr.errorMessage]),
                              !.gen = Append(@, [out |-> g, processed |-> Some(pr)])]}
            ELSE GenerationLoop(p, i + 1,
                     [acc EXCEPT !.choices = Append(@, Choice(i, pr)),
                                 !.completionTokens = pr.completionTokens,
                                 !.gen = Append(@, [out |-> g, processed |-> Some(pr)])])
            : pr \in ProcessOutcomes(g.contentOrToolCalls, p)}
        : g \in GenOutcomes}

\* A faulty variant of Completion: the completion tokens of all the
\* generations are added up.
CompletionSummingTokens(p, run) ==
    [id |-> "chatcmpl-0", object |-> "chat.completion", model |-> p.model,
     choices |-> run.choices,
     usage |-> Usage(PromptTokens(p.messages, p.tools),
                     SumSeq([i \in 1..Len(run.gen) |->
                                run.gen[i].processed[1].completionTokens]))]

Completion(p, run) ==
    [id |-> "chatcmpl-0", object |-> "chat.completion", model |-> p.model,
     choices |-> run.choices,
     usage |-> Usage(PromptTokens(p.messages, p.tools), run.completionTokens)]

\* A faulty variant of oneShotResponse: on an error the choices made so far
\* are returned through onData before onError is called.
oneShotResponseWithPartialChoices(p, r, run) ==
    IF run.error # Absent
    THEN [res |-> onErrorOneShot(onData(r, Completion(p, run)),
                                 run.error[1].code, run.error[1].message),
          calls |-> [NoCalls EXCEPT !.generator = Len(run.gen), !.onError = 1,
                                    !.onData = 1],
          gen |-> run.gen]
    ELSE [res |-> onData(r, Completion(p, run)),
          calls |-> [NoCalls EXCEPT !.generator = Len(run.gen), !.onData = 1],
          gen |-> run.gen]

\* oneShotResponse when its generation loop ends as run.
oneShotResponse(p, r, run) ==
    IF run.error # Absent
    THEN [res |-> onErrorOneShot(r, run.error[1].code, run.error[1].message),
          calls |-> [NoCalls EXCEPT !.generator = Len(run.gen), !.onError = 1],
          gen |-> run.gen]
    ELSE [res |-> onData(r, Completion(p, run)),
          calls |-> [NoCalls EXCEPT !.generator = Len(run.gen), !.onData = 1],
          gen |-> run.gen]

-----------------------------------------------------------------------------
(***************************************************************************)
(* Several streaming requests.  Each call of the handler has its own res   *)
(* and responseClosed, and each call of streamResponse its own id, chunks  *)
(* and chunkIndex: the record of a request holds them.                     *)
(***************************************************************************)
Requests == 1..MaxStreams

\* What getId() may return to a call of streamResponse.
StreamIds == {"chatcmpl-0", "chatcmpl-1"}

\* The response of a request that is not answered yet.
FreshRes ==
    [destroyed |-> FALSE, responseClosed |-> FALSE, writableEnded |-> FALSE,
     headersSent |-> FALSE, statusCode |-> 0, body |-> Absent, frames |-> <<>>]

\* own is the closure as streamResponse made it, st the closure as the
\* turns of sendData left it, finished whether res emitted 'finish'.
IdleStream ==
    [pc |-> "idle", own |-> NoStream, st |-> NoStream, res |-> FreshRes,
     calls |-> NoCalls, finished |-> FALSE]

-----------------------------------------------------------------------------
(***************************************************************************)
(* The state machine of one exchange.                                      *)
(***************************************************************************)
Init ==
    /\ pc = "idle"
    /\ req = Absent
    /\ destroyed = FALSE
    /\ responseClosed = FALSE
    /\ writableEnded = FALSE
    /\ headersSent = FALSE
    /\ statusCode = 0
    /\ body = Absent
    /\ frames = <<>>
    /\ st = NoStream
    /\ calls = NoCalls
    /\ gen = <<>>
    /\ applied = Absent
    /\ params = Absent
    /\ streams = [k \in Requests |-> IdleStream]
    /\ inFlightRequests = 0
    /\ embedding = Absent

\* The response after a step.
SetRes(r) ==
    /\ destroyed' = r.destroyed
    /\ responseClosed' = r.responseClosed
    /\ writableEnded' = r.writableEnded
    /\ headersSent' = r.headersSent
    /\ statusCode' = r.statusCode
    /\ body' = r.body
    /\ frames' = r.frames

\* A request arrives and the metrics middleware counts it; the handler
\* awaits the configured response delay.
Receive ==
    /\ pc = "idle"
    /\ \E s \in BOOLEAN :
           ReceiveFrom([BaseRequest EXCEPT !.stream = s], MaxDeviations, 0)
    /\ pc' = "received"
    /\ inFlightRequests' = inFlightRequests + 1
    /\ UNCHANGED <<destroyed, responseClosed, writableEnded, headersSent,
                   statusCode, body, frames, st, calls, gen, applied, params, streams, embedding>>

\* The peer closes the connection.  The handler's 'close' listener sets
\* responseClosed only once it is registered, after the validation.
Close ==
    /\ pc \in {"received", "streaming"}
    /\ ~destroyed
    /\ destroyed' = TRUE
    /\ responseClosed' = (responseClosed \/ pc = "streaming")
    /\ UNCHANGED <<pc, req, writableEnded, headersSent, statusCode, body,
                   frames, st, calls, gen, applied, params, streams,
                   inFlightRequests, embedding>>

\* The handler answers 401 or the 400 of the first failing check.
Reject ==
    /\ pc = "received"
    /\ Validate(req[1]).status \in {400, 401}
    /\ LET v == Validate(req[1])
       IN  SetRes(Send(Res, v.status, ErrorBody(v.check, v.message)))
    /\ pc' = "done"
    /\ UNCHANGED <<req, st, calls, gen, applied, params, streams,
                   inFlightRequests, embedding>>

\* The handler throws (a rejected promise of the async handler): the
\* framework answers 500 or nothing, depending on its version.
Throw ==
    /\ pc = "received"
    /\ Validate(req[1]).status = -1
    /\ \/ SetRes(Send(Res, 500, ErrorBody("", Validate(req[1]).message)))
       \/ SetRes(Res)
    /\ pc' = "done"
    /\ UNCHANGED <<req, st, calls, gen, applied, params, streams,
                   inFlightRequests, embedding>>

\* The handler passes the validation and streams: streamResponse up to and
\* with the first turn of sendData.
Stream ==
    /\ pc = "received"
    /\ Validate(req[1]).status = 200
    /\ Normalize(req[1]).stream
    /\ LET p == Normalize(req[1])
       IN  \E g \in GenOutcomes :
           \E pr \in ProcessOutcomes(g.contentOrToolCalls, p) :
               LET out == streamResponse(p, Res, g, pr)
               IN  /\ SetRes(out.res)
                   /\ st' = out.st
                   /\ calls' = out.calls
                   /\ gen' = out.gen
                   /\ pc' = IF out.scheduled THEN "streaming" ELSE "done"
    /\ params' = Some(Normalize(req[1]))
    /\ UNCHANGED <<req, applied, streams,
                   inFlightRequests, embedding>>

\* The handler passes the validation and answers in one piece.
OneShot ==
    /\ pc = "received"
    /\ Validate(req[1]).status = 200
    /\ ~Normalize(req[1]).stream
    /\ LET p == Normalize(req[1])
       IN  \E run \in GenerationLoop(p, 0, NoRun) :
               LET out == oneShotResponse(p, Res, run)
               IN  /\ SetRes(out.res)
                   /\ calls' = out.calls
                   /\ gen' = out.gen
    /\ pc' = "done"
    /\ params' = Some(Normalize(req[1]))
    /\ UNCHANGED <<req, st, applied, streams,
                   inFlightRequests, embedding>>

\* A turn of the event loop runs the sendData that setImmediate scheduled.
SendData ==
    /\ pc = "streaming"
    /\ LET out == sendData(st, Res, calls)
       IN  /\ SetRes(out.res)
           /\ st' = out.st
           /\ calls' = out.calls
           /\ pc' = IF out.scheduled THEN "streaming" ELSE "done"
    /\ UNCHANGED <<req, gen, applied, params, streams,
                   inFlightRequests, embedding>>

\* res emits 'finish' once the ended response was handed to the transport:
\* the listener of the metrics middleware runs.  The one request of this
\* exchange is counted until then.  Whether a response ended on a
\* connection the peer had closed still emits it is left open: the step may
\* be taken or not.
Finish ==
    /\ writableEnded
    /\ inFlightRequests > 0
    /\ inFlightRequests' = inFlightRequests - 1
    /\ UNCHANGED <<pc, req, destroyed, responseClosed, writableEnded, headersSent,
                   statusCode, body, frames, st, calls, gen, applied, params, streams, embedding>>

Next ==
    \/ Receive
    \/ Close
    \/ Reject
    \/ Throw
    \/ Stream
    \/ OneShot
    \/ SendData
    \/ Finish

Spec == Init /\ [][Next]_vars

\* The exchange under the scheduling of the event loop: a callback given to
\* setImmediate is run, so a scheduled turn of sendData is not put off for
\* ever.
FairSpec == Spec /\ WF_vars(SendData)

-----------------------------------------------------------------------------
(***************************************************************************)
(* The content functions of chat.js called on their own, on every input of *)
(* a bounded set: applied holds the arguments and the result of one call.  *)
(***************************************************************************)
RECURSIVE StringsOver(_, _)
StringsOver(alphabet, n) ==
    IF n = 0 THEN {<<>>}
    ELSE LET shorter == StringsOver(alphabet, n - 1)
         IN  shorter \cup {Append(w, c) : w \in shorter, c \in alphabet}

RECURSIVE ListsOf(_, _)
ListsOf(elements, n) ==
    IF n = 0 THEN {<<>>}
    ELSE LET shorter == ListsOf(elements, n - 1)
         IN  shorter \cup {Append(l, e) : l \in shorter, e \in elements}

HelloWorld == <<"h", "e", "l", "l", "o", " ", "w", "o", "r", "l", "d">>

Contents ==
    StringsOver({"a", "b", " "}, MaxContentLen)
    \cup {HelloWorld, <<"a", "\t", "b">>, <<"a", "\n", "b">>, <<"a", " ", " ", "b">>}
    \cup {<<"a", " ", "A">>, Constructor \o <<" ">> \o Constructor}

StopStrings == StringsOver({"b", " "}, MaxStopLen)

\* null, and the lists of stop sequences.
StopArguments ==
    {Absent}
    \cup {Some(l) : l \in ListsOf(StopStrings, MaxStops)}
    \cup {Some(<<<<"w", "o", "r", "l", "d">>, <<"o", " ", "w">>>>)}

Payloads ==
    {TextPayload(c) : c \in Contents}
    \cup {g.contentOrToolCalls : g \in GenOutcomes}

Penalties == {-1, 0, 1}

\* The penalties the two penalty functions are called with on their own:
\* those of the range [-2, 2] and one beyond each end.
PenaltyArguments == -3..3

Application(fn, payload, stopSequences, maxTokens, frequencyPenalty, presencePenalty, result) ==
    [fn |-> fn, payload |-> payload, stopSequences |-> stopSequences,
     maxTokens |-> maxTokens, frequencyPenalty |-> frequencyPenalty,
     presencePenalty |-> presencePenalty, result |-> result]

\* The result of a function that returns a string, as a record of the
\* shape processContentOrToolCalls returns.
StringResult(content) ==
    [contentOrToolCalls |-> TextPayload(content), finishReason |-> "",
     completionTokens |-> 0, errorCode |-> Absent, errorMessage |-> ""]

\* applyStopSequences(content, stopSequences)
CallApplyStopSequences ==
    /\ applied = Absent
    /\ \E content \in Contents, stopSequences \in StopArguments :
           applied' = Some(Application("applyStopSequences", TextPayload(content),
                               stopSequences, Absent, 0, 0,
                               StringResult(applyStopSequences(content, stopSequences))))
    /\ UNCHANGED <<pc, req, destroyed, responseClosed, writableEnded, headersSent,
                   statusCode, body, frames, st, calls, gen, params, streams,
                   inFlightRequests, embedding>>

\* processContentOrToolCalls(payload, stopSequences, maxTokens, frequencyPenalty,
\* presencePenalty), over the draws of Math.random().
CallProcessContentOrToolCalls ==
    /\ applied = Absent
    /\ \E payload \in Payloads :
       \E stopSequences \in ListsOf(StopStrings, 1) :
       \E maxTokens \in {Absent} \cup {Some(n) : n \in -1..(MaxContentLen + 1)} :
       \E frequencyPenalty \in Penalties, presencePenalty \in Penalties :
           LET p == [stopSequences |-> stopSequences, maxTokens |-> maxTokens,
                     frequencyPenalty |-> frequencyPenalty,
                     presencePenalty |-> presencePenalty]
           IN  \E result \in ProcessOutcomes(payload, p) :
                   applied' = Some(Application("processContentOrToolCalls", payload,
                                       Some(stopSequences), maxTokens, frequencyPenalty,
                                       presencePenalty, result))
    /\ UNCHANGED <<pc, req, destroyed, responseClosed, writableEnded, headersSent,
                   statusCode, body, frames, st, calls, gen, params, streams,
                   inFlightRequests, embedding>>

\* applyFrequencyPenalty(input, frequencyPenalty), over the draws of
\* Math.random().
CallApplyFrequencyPenalty ==
    /\ applied = Absent
    /\ \E input \in Contents, frequencyPenalty \in PenaltyArguments :
       \E rnd \in [1..Len(split(input)) -> RandomDraws] :
           applied' = Some(Application("applyFrequencyPenalty", TextPayload(input),
                               Absent, Absent, frequencyPenalty, 0,
                               StringResult(applyFrequencyPenalty(input, frequencyPenalty, rnd))))
    /\ UNCHANGED <<pc, req, destroyed, responseClosed, writableEnded, headersSent,
                   statusCode, body, frames, st, calls, gen, params, streams,
                   inFlightRequests, embedding>>

\* applyPresencePenalty(input, presencePenalty)
CallApplyPresencePenalty ==
    /\ applied = Absent
    /\ \E input \in Contents, presencePenalty \in PenaltyArguments :
           applied' = Some(Application("applyPresencePenalty", TextPayload(input),
                               Absent, Absent, 0, presencePenalty,
                               StringResult(applyPresencePenalty(input, presencePenalty))))
    /\ UNCHANGED <<pc, req, destroyed, responseClosed, writableEnded, headersSent,
                   statusCode, body, frames, st, calls, gen, params, streams,
                   inFlightRequests, embedding>>

ContentNext ==
    \/ CallApplyStopSequences
    \/ CallProcessContentOrToolCalls
    \/ CallApplyFrequencyPenalty
    \/ CallApplyPresencePenalty

ContentSpec == Init /\ [][ContentNext]_vars

-----------------------------------------------------------------------------
(***************************************************************************)
(* POST /v1/embeddings (server.js).  The handler has no await: an exchange *)
(* is one step.                                                            *)
(***************************************************************************)
\* input.trim()
RECURSIVE trimStart(_)
trimStart(s) == IF s # <<>> /\ IsSpace(Head(s)) THEN trimStart(Tail(s)) ELSE s
RECURSIVE trimEnd(_)
trimEnd(s) ==
    IF s # <<>> /\ IsSpace(s[Len(s)]) THEN trimEnd(SubSeq(s, 1, Len(s) - 1)) ELSE s
trim(s) == trimEnd(trimStart(s))

\* inputString.trim().split(/\s+/).length
NumInputTokens(inputString) == Len(split(trim(inputString)))

\* The input of a request: absent, a string, an array of strings, of
\* integers or of arrays of integers, an array of both kinds, a number.
NoInput == [kind |-> "absent", text |-> <<>>, items |-> <<>>]
StringInput(s) == [kind |-> "string", text |-> s, items |-> <<>>]
ArrayInput(kind, items) == [kind |-> kind, text |-> <<>>, items |-> items]

\* A text of n words.
WordsText(n) == join([i \in 1..n |-> <<"a">>])

EmbeddingTexts ==
    {<<>>, <<"a">>, <<" ", "a", " ">>, WordsText(MaxInputTokens),
     WordsText(MaxInputTokens + 1)}
IntegerArrays == {[i \in 1..n |-> 0] : n \in 0..(MaxDimensions + 1)}

EmbeddingInputs ==
    {NoInput, ArrayInput("number", <<>>), ArrayInput("mixed", <<<<"a">>, 0>>)}
    \cup {StringInput(s) : s \in EmbeddingTexts}
    \cup {ArrayInput("strings", l) : l \in ListsOf(EmbeddingTexts, MaxInputs)}
    \cup {ArrayInput("integers", l) : l \in IntegerArrays \ {<<>>}}
    \cup {ArrayInput("arrays", l) : l \in ListsOf(IntegerArrays, MaxInputs) \ {<<>>}}

EmbeddingRequests ==
    [auth : BOOLEAN, model : {"mock-embedding", "unknown"}, input : EmbeddingInputs,
     encoding_format : {Absent, Some("float"), Some("rot13")},
     dimensions : {Absent, Some(-1), Some(1)}]

\* if(!input): undefined, the empty string and the number 0 are falsy.
FalsyInput(input) ==
    input.kind \in {"absent", "number"} \/ (input.kind = "string" /\ input.text = <<>>)

\* The handler at some point of its run: the response, how often it called
\* res.send, res.sendStatus or res.json, how often generateEmbedding, and
\* whether it threw.
Handling == [res |-> FreshRes, sends |-> 0, generated |-> 0, thrown |-> FALSE]

\* res.status(code).send(text), res.sendStatus(code), res.json(data).  Once
\* the response was sent, setting a header throws ERR_HTTP_HEADERS_SENT;
\* throws is FALSE for a framework that ignores the call.
Reply(h, code, content, throws) ==
    IF h.res.headersSent
    THEN [h EXCEPT !.sends = @ + 1, !.thrown = throws]
    ELSE [h EXCEPT !.res = Send(@, code, content), !.sends = @ + 1]

\* input.forEach((item, idx) => { if(over the limit) return res.status(400)
\* .send(...) }), from item idx on: the return leaves the callback, not the
\* loop and not the handler; an exception leaves them all.
RECURSIVE ForEachInput(_, _, _, _, _)
ForEachInput(h, input, idx, limitOf, throws) ==
    IF idx > Len(input.items) \/ h.thrown THEN h
    ELSE ForEachInput(IF limitOf[idx]
                      THEN Reply(h, 400, ErrorBody("input", "max allowed"), throws)
                      ELSE h,
                      input, idx + 1, limitOf, throws)

\* Whether item idx of the input is over its limit.
ItemsOverLimit(input) ==
    [idx \in 1..Len(input.items) |->
        IF input.kind = "strings"
        THEN NumInputTokens(input.items[idx]) > MaxInputTokens
        ELSE Len(input.items[idx]) > MaxDimensions]

\* The rest of the handler once the input was looked at: encoding_format,
\* then res.json(generateEmbedding(...)).
EncodeAndGenerate(h, b, throws) ==
    IF h.thrown THEN h
    ELSE IF b.encoding_format # Absent /\ b.encoding_format[1] \notin {"float", "base64"}
    THEN Reply(h, 400, ErrorBody("encoding_format", "allowed values"), throws)
    ELSE Reply([h EXCEPT !.generated = @ + 1], 200, "embedding", throws)

\* The handler of POST /v1/embeddings for request b.
PostEmbeddingsHandler(b, throws) ==
    LET h == Handling
        input == b.input
    IN  IF ~b.auth THEN Reply(h, 401, "Unauthorized", throws)
        ELSE IF FalsyInput(input)
        THEN Reply(h, 400, ErrorBody("input", "mandatory"), throws)
        ELSE IF b.dimensions # Absent /\ b.dimensions[1] # 0 /\ b.dimensions[1] < 1
        THEN Reply(h, 400, ErrorBody("dimensions", "greater than 0"), throws)
        ELSE IF b.model # "mock-embedding"
        THEN Reply(h, 400, ErrorBody("model", "not available"), throws)
        ELSE IF input.kind = "string"
        THEN IF NumInputTokens(input.text) > MaxInputTokens
             THEN Reply(h, 400, ErrorBody("input", "max allowed"), throws)
             ELSE EncodeAndGenerate(h, b, throws)
        ELSE IF input.kind = "strings"
        THEN EncodeAndGenerate(ForEachInput(h, input, 1, ItemsOverLimit(input), throws),
                               b, throws)
        ELSE IF input.kind = "integers"
        THEN IF Len(input.items) > MaxDimensions
             THEN Reply(h, 400, ErrorBody("input", "max allowed"), throws)
             ELSE EncodeAndGenerate(h, b, throws)
        ELSE IF input.kind = "arrays"
        THEN EncodeAndGenerate(ForEachInput(h, input, 1, ItemsOverLimit(input), throws),
                               b, throws)
        ELSE Reply(h, 400, ErrorBody("input", "invalid"), throws)

\* A request to POST /v1/embeddings is received and handled.
PostEmbeddings ==
    /\ embedding = Absent
    /\ \E b \in EmbeddingRequests, throws \in BOOLEAN :
           embedding' = Some([request |-> b, handled |-> PostEmbeddingsHandler(b, throws)])
    /\ UNCHANGED <<pc, req, destroyed, responseClosed, writableEnded, headersSent,
                   statusCode, body, frames, st, calls, gen, applied, params, streams,
                   inFlightRequests>>

EmbeddingsNext == PostEmbeddings

EmbeddingsSpec == Init /\ [][EmbeddingsNext]_vars

-----------------------------------------------------------------------------
(***************************************************************************)
(* The state machine of several streaming requests in progress together:   *)
(* the turns of their sendData and the closing of their transports         *)
(* interleave in any order.                                                *)
(***************************************************************************)
\* The valid streaming requests, without and with the usage-only chunk.
StreamRequests ==
    {[BaseRequest EXCEPT !.stream = TRUE, !.stream_options = o] :
        o \in {Absent, Some([include_usage |-> TRUE])}}

\* What the generator returns to them: an error, a text, two tool calls.
StreamPayloads ==
    {GeneratorFailed,
     Generated(TextPayload(<<"a", " ", "b">>)),
     Generated(ToolPayload(<<ToolCall("f", "{\"a\":1}"), ToolCall("g", "{}")>>))}

\* A faulty variant of ClosureOf: the variables of streamResponse are shared
\* by its calls, every sendData reads those of the first request.
ClosureOfFirst(k) == streams[1].st

\* The variables the sendData of request k closes over: those of its own
\* call of streamResponse.
ClosureOf(k) == streams[k].st

\* Request k arrives and the metrics middleware counts it; its handler
\* passes the validation and calls streamResponse, which runs up to and with
\* the first turn of sendData.
StartStream(k) ==
    /\ streams[k].pc = "idle"
    /\ \E b \in StreamRequests, id \in StreamIds, g \in StreamPayloads :
           /\ Validate(b).status = 200
           /\ LET p == Normalize(b)
              IN  \E pr \in ProcessOutcomes(g.contentOrToolCalls, p) :
                      LET failed  == streamResponse(p, FreshRes, g, pr)
                          closure == [StreamOf(p, pr) EXCEPT !.id = id]
                          first   == sendData(closure, FreshRes,
                                              [NoCalls EXCEPT !.generator = 1])
                      IN  streams' = [streams EXCEPT ![k] =
                              IF g.errorCode # Absent \/ pr.errorCode # Absent
                              THEN [pc |-> "done", own |-> NoStream, st |-> failed.st,
                                    res |-> failed.res, calls |-> failed.calls,
                                    finished |-> FALSE]
                              ELSE [pc |-> IF first.scheduled THEN "streaming" ELSE "done",
                                    own |-> closure, st |-> first.st,
                                    res |-> first.res, calls |-> first.calls,
                                    finished |-> FALSE]]
    /\ inFlightRequests' = inFlightRequests + 1
    /\ UNCHANGED <<pc, req, destroyed, responseClosed, writableEnded, headersSent,
                   statusCode, body, frames, st, calls, gen, applied, params, embedding>>

\* A turn of the event loop runs the sendData of request k.
SendDataOf(k) ==
    /\ streams[k].pc = "streaming"
    /\ LET out == sendData(ClosureOf(k), streams[k].res, streams[k].calls)
       IN  streams' = [streams EXCEPT
               ![k].st = out.st, ![k].res = out.res, ![k].calls = out.calls,
               ![k].pc = IF out.scheduled THEN "streaming" ELSE "done"]
    /\ UNCHANGED <<pc, req, destroyed, responseClosed, writableEnded, headersSent,
                   statusCode, body, frames, st, calls, gen, applied, params,
                   inFlightRequests, embedding>>

\* The peer of request k closes its connection: markResponseClosed runs.
CloseOf(k) ==
    /\ streams[k].pc = "streaming"
    /\ ~streams[k].res.destroyed
    /\ streams' = [streams EXCEPT ![k].res.destroyed = TRUE,
                                  ![k].res.responseClosed = TRUE]
    /\ UNCHANGED <<pc, req, destroyed, responseClosed, writableEnded, headersSent,
                   statusCode, body, frames, st, calls, gen, applied, params,
                   inFlightRequests, embedding>>

\* The response of request k emits 'finish': the listener of the metrics
\* middleware runs.  A response that was never ended emits none.
FinishOf(k) ==
    /\ streams[k].res.writableEnded
    /\ ~streams[k].finished
    /\ streams' = [streams EXCEPT ![k].finished = TRUE]
    /\ inFlightRequests' = inFlightRequests - 1
    /\ UNCHANGED <<pc, req, destroyed, responseClosed, writableEnded, headersSent,
                   statusCode, body, frames, st, calls, gen, applied, params, embedding>>

StreamsNext ==
    \/ \E k \in Requests : StartStream(k)
    \/ \E k \in Requests : SendDataOf(k)
    \/ \E k \in Requests : CloseOf(k)
    \/ \E k \in Requests : FinishOf(k)

StreamsSpec == Init /\ [][StreamsNext]_vars

-----------------------------------------------------------------------------
(***************************************************************************)
(* What the properties below speak of.                                     *)
(***************************************************************************)
IsContentChunk(f) == f.kind = "chunk" /\ f.chunk.choices # <<>>
IsUsageOnlyChunk(f) == f.kind = "chunk" /\ f.chunk.choices = <<>> /\ f.chunk.usage # Absent
IsDone(f) == f.kind = "done"

ContentFrames == SelectSeq(frames, IsContentChunk)
NumUsageOnly == Cardinality({i \in DOMAIN frames : IsUsageOnlyChunk(frames[i])})
NumDone == Cardinality({i \in DOMAIN frames : IsDone(frames[i])})

\* The request asks for a stream, and (raw) for the usage-only chunk.
StreamRequested == req # Absent /\ req[1].stream
IncludeUsage == req[1].stream_options # Absent /\ req[1].stream_options[1].include_usage

\* The last generation reported an error, by the generator or the assembler.
GenerationFailed ==
    /\ gen # <<>>
    /\ \/ gen[Len(gen)].out.errorCode # Absent
       \/ gen[Len(gen)].processed[1].errorCode # Absent
FailureCode ==
    IF gen[Len(gen)].out.errorCode # Absent THEN gen[Len(gen)].out.errorCode[1]
    ELSE gen[Len(gen)].processed[1].errorCode[1]
FailureMessage ==
    IF gen[Len(gen)].out.errorCode # Absent THEN gen[Len(gen)].out.errorMessage
    ELSE gen[Len(gen)].processed[1].errorMessage

\* A stream whose one generation succeeded, and what the assembler made of it.
StreamSucceeded == StreamRequested /\ gen # <<>> /\ ~GenerationFailed
Assembled == gen[1].processed[1]
\* The content chunks of the stream: one per tool call, or one for the text.
NumChunks ==
    IF Assembled.contentOrToolCalls.hasToolCalls
       /\ Assembled.contentOrToolCalls.tool_calls # <<>>
    THEN Len(Assembled.contentOrToolCalls.tool_calls) ELSE 1

-----------------------------------------------------------------------------
(* C1: a stream whose generation succeeds and whose transport stays        *)
(* writable has, once it is over, [DONE] as its last frame and, when        *)
(* stream_options.include_usage is true, exactly one usage-only chunk      *)
(* (empty choices, usage with its totals), right after the final content   *)
(* chunk and right before [DONE]; it has no usage-only chunk, and no chunk *)
(* with a usage block, when the flag is false or absent.  At no moment are *)
(* there more usage-only chunks than that.                                 *)
C1_UsageOnlyChunk ==
    StreamSucceeded =>
        /\ NumUsageOnly <= (IF IncludeUsage THEN 1 ELSE 0)
        /\ (pc = "done" /\ ~destroyed) =>
              LET n == Len(frames)
              IN  /\ n >= 2
                  /\ IsDone(frames[n])
                  /\ IF IncludeUsage
                     THEN /\ NumUsageOnly = 1
                          /\ n >= 3
                          /\ IsUsageOnlyChunk(frames[n - 1])
                          /\ frames[n - 1].chunk.usage[1].completion_tokens
                                 = Assembled.completionTokens
                          /\ frames[n - 1].chunk.usage[1].total_tokens
                                 = frames[n - 1].chunk.usage[1].prompt_tokens
                                   + Assembled.completionTokens
                          /\ IsContentChunk(frames[n - 2])
                          /\ frames[n - 2].chunk.choices[1].finish_reason # Absent
                     ELSE \A i \in 1..(n - 1) :
                              IsContentChunk(frames[i]) /\ frames[i].chunk.usage = Absent

\* A stream of two tool calls with the usage-only chunk, over and never closed.
C1_Witness ==
    /\ StreamSucceeded /\ pc = "done" /\ ~destroyed /\ IncludeUsage
    /\ Len(frames) = 4 /\ IsUsageOnlyChunk(frames[3])

(* C2: in every stream the i-th content chunk written is chunk i of the    *)
(* stream; it carries finish_reason null unless it is the last chunk of    *)
(* the stream, and the last one carries the finish reason the assembler    *)
(* computed, which is stop, length or tool_calls.                          *)
C2_FinishReason ==
    StreamSucceeded =>
        /\ Len(ContentFrames) <= NumChunks
        /\ \A i \in 1..Len(ContentFrames) :
              LET choice == ContentFrames[i].chunk.choices[1]
              IN  IF i < NumChunks
                  THEN choice.finish_reason = Absent
                  ELSE /\ choice.finish_reason = Some(Assembled.finishReason)
                       /\ Assembled.finishReason \in {"stop", "length", "tool_calls"}

\* Both content chunks of a stream of two tool calls were written.
C2_Witness ==
    /\ StreamSucceeded /\ Len(ContentFrames) = 2
    /\ ContentFrames[1].chunk.choices[1].finish_reason = Absent
    /\ ContentFrames[2].chunk.choices[1].finish_reason = Some("tool_calls")

(* C3: in a stream, completion is signalled at most once; [DONE] is        *)
(* written at most once, it is the last frame, and every content chunk and *)
(* the usage-only chunk, if asked for, were written before it; the         *)
(* response is ended only with [DONE] as its last frame; and a stream that *)
(* was not cancelled ends with [DONE] written, completion signalled once   *)
(* and the response ended.                                                 *)
C3_DoneLastAndOnce ==
    StreamSucceeded =>
        /\ calls.onCompletion <= 1
        /\ NumDone <= 1
        /\ \A i \in DOMAIN frames :
              IsDone(frames[i]) =>
                  /\ i = Len(frames)
                  /\ Len(ContentFrames) = NumChunks
                  /\ NumUsageOnly = (IF IncludeUsage THEN 1 ELSE 0)
        /\ writableEnded => (frames # <<>> /\ IsDone(frames[Len(frames)]))
        /\ (pc = "done" /\ ~destroyed) =>
              (NumDone = 1 /\ calls.onCompletion = 1 /\ writableEnded)

\* A stream that was not cancelled is over: two chunks, the usage, [DONE].
C3_Witness ==
    /\ StreamSucceeded /\ pc = "done" /\ ~destroyed /\ writableEnded
    /\ Len(frames) = 4 /\ IsDone(frames[4]) /\ calls.onCompletion = 1

C5_StreamInitError ==
    (StreamRequested /\ GenerationFailed) =>
        /\ calls.onError = 1
        /\ calls.onChunk = 0
        /\ calls.onCompletion = 0
        /\ calls.generator = 1
        /\ frames = <<>>
        /\ pc = "done"
        /\ statusCode = FailureCode
        /\ body = Some(ErrorBody("generation", FailureMessage))

\* The assembler refused a stream's tool calls for max_tokens.
C5_Witness ==
    /\ StreamRequested /\ GenerationFailed
    /\ gen[1].out.errorCode = Absent
    /\ statusCode = 400 /\ calls.onError = 1

-----------------------------------------------------------------------------
(***************************************************************************)
(* The validation contract: the checks in their order, and when a request  *)
(* violates each.                                                          *)
(***************************************************************************)
CheckOrder ==
    <<"temperature", "top_p", "frequency_penalty", "presence_penalty", "stop",
      "model", "max_tokens", "stream_options", "n", "response_format", "tool_choice">>

Provided(x) == x # Absent
Outside(x, lo, hi) == Provided(x) /\ (x[1] < lo \/ x[1] > hi)

Violates(b, check) ==
    CASE check = "temperature"       -> Outside(b.temperature, 0, 1)
      [] check = "top_p"             -> Outside(b.top_p, 0, 1)
      [] check = "frequency_penalty" -> Outside(b.frequency_penalty, -2, 2)
      [] check = "presence_penalty"  -> Outside(b.presence_penalty, -2, 2)
      [] check = "stop"              -> b.stop.kind = "list" /\ Len(b.stop.val) > 4
      [] check = "model"             -> ~Provided(b.model) \/ b.model[1] \notin AvailableModels
      [] check = "max_tokens"        ->
             \/ (Provided(b.max_completion_tokens) /\ b.max_completion_tokens[1] > ModelMaxTokens)
             \/ (~Provided(b.max_completion_tokens) /\ Provided(b.max_tokens)
                 /\ b.max_tokens[1] > ModelMaxTokens)
      [] check = "stream_options"    -> Provided(b.stream_options) /\ ~b.stream
      [] check = "n"                 ->
             Provided(b.n) /\ (b.n[1] < 1 \/ (b.n[1] > 1 /\ b.stream))
      [] check = "response_format"   ->
             b.response_format.kind = "object" /\ b.response_format.hasType
             /\ b.response_format.type = "json_schema" /\ ~b.response_format.hasSchema
      [] check = "tool_choice"       ->
             \/ /\ b.tool_choice.kind = "string"
                /\ \/ b.tool_choice.str \notin {"none", "auto", "required"}
                   \/ /\ b.tool_choice.str # "none"
                      /\ (~Provided(b.tools) \/ b.tools[1] = <<>>)
             \/ /\ b.tool_choice.kind = "object"
                /\ \/ ~b.tool_choice.hasFunction
                   \/ ~b.tool_choice.hasName
                   \/ ~Provided(b.tools)
                   \/ \A i \in DOMAIN b.tools[1] :
                          b.tools[1][i].function.name # b.tool_choice.name

Violated(b) == {i \in DOMAIN CheckOrder : Violates(b, CheckOrder[i])}
FirstViolated(b) ==
    CheckOrder[CHOOSE i \in Violated(b) : \A j \in Violated(b) : i <= j]

(* C6: an authorized request that violates two or more checks is answered  *)
(* with the 400 of the first of them in the order temperature, top_p,      *)
(* frequency_penalty, presence_penalty, stop, model, max output length,    *)
(* stream_options, n, response_format, tool_choice, and nothing is         *)
(* generated.                                                              *)
C6_FirstViolationAnswers ==
    (pc = "done" /\ req[1].auth /\ Cardinality(Violated(req[1])) >= 2) =>
        /\ statusCode = 400
        /\ body # Absent
        /\ body[1].kind = "error"
        /\ body[1].field = FirstViolated(req[1])
        /\ calls = NoCalls

(* C7: whenever the generator was invoked, each numeric knob the request   *)
(* provides lies in its range (temperature and top_p in [0,1], the two     *)
(* penalties in [-2,2]), and so does each value passed on; a request with  *)
(* a knob outside its range never reaches the generator, writes no frame,  *)
(* and, when authorized, is answered 400.                                  *)
KnobsInRange(b) ==
    /\ ~Outside(b.temperature, 0, 1)
    /\ ~Outside(b.top_p, 0, 1)
    /\ ~Outside(b.frequency_penalty, -2, 2)
    /\ ~Outside(b.presence_penalty, -2, 2)

C7_KnobsInRange ==
    req # Absent =>
        /\ calls.generator > 0 =>
              /\ KnobsInRange(req[1])
              /\ Normalize(req[1]).temperature \in 0..1
              /\ Normalize(req[1]).topP \in 0..1
              /\ Normalize(req[1]).frequencyPenalty \in -2..2
              /\ Normalize(req[1]).presencePenalty \in -2..2
        /\ ~KnobsInRange(req[1]) =>
              /\ calls = NoCalls
              /\ frames = <<>>
              /\ (pc = "done" /\ req[1].auth) =>
                    (statusCode = 400 /\ body # Absent /\ body[1].kind = "error")

\* A request with presence_penalty -3 was answered 400 for that knob.
C7_Witness ==
    /\ pc = "done" /\ req[1].presence_penalty = Some(-3)
    /\ statusCode = 400 /\ body[1].field = "presence_penalty"
    /\ calls.generator = 0

(* C8: a request with n greater than 1 and stream true is rejected         *)
(* whatever its other parameters: the generator is not invoked, no         *)
(* callback runs, no frame is written, and the answer is an error (400, or *)
(* 401 without a valid key).                                               *)
C8_StreamWithManyRejected ==
    (StreamRequested /\ Provided(req[1].n) /\ req[1].n[1] > 1) =>
        /\ calls = NoCalls
        /\ frames = <<>>
        /\ pc \in {"received", "done"}
        /\ pc = "done" =>
              /\ statusCode \in {400, 401}
              /\ body # Absent
              /\ body[1].kind = "error"

\* n = 2 with stream true, otherwise valid, was answered by the n check.
C8_Witness ==
    /\ StreamRequested /\ req[1].n = Some(2) /\ pc = "done"
    /\ statusCode = 400 /\ body[1].field = "n"
    /\ Cardinality(Violated(req[1])) = 1

(* C9: an authorized request that provides n below 1 (zero or negative) is *)
(* answered 400 and produces no choices.                                   *)
C9_NonPositiveNRejected ==
    (pc = "done" /\ req[1].auth /\ Provided(req[1].n) /\ req[1].n[1] < 1) =>
        /\ statusCode = 400
        /\ calls.generator = 0
        /\ calls.onData = 0

(* C10: a one-shot response that succeeds holds exactly numGenerations     *)
(* choices (the count the handler passes to the responder), the choice at  *)
(* position i has index i, for i = 0..N-1, and is made of what the i-th    *)
(* call of the generator returned, as assembled.                           *)
C10_ChoicesIndexed ==
    (pc = "done" /\ ~req[1].stream /\ calls.onData = 1) =>
        LET N == Normalize(req[1]).numGenerations
        IN  /\ statusCode = 200
            /\ body # Absent
            /\ Len(body[1].choices) = N
            /\ Len(gen) = N
            /\ calls.generator = N
            /\ \A i \in 0..(N - 1) :
                  LET choice == body[1].choices[i + 1]
                      made   == gen[i + 1].processed[1]
                  IN  /\ choice.index = i
                      /\ choice.finish_reason = made.finishReason
                      /\ IF made.finishReason = "tool_calls"
                         THEN /\ choice.message.content = Absent
                              /\ Len(choice.message.tool_calls[1])
                                     = Len(gen[i + 1].out.contentOrToolCalls.tool_calls)
                         ELSE choice.message.content
                                  = Some(made.contentOrToolCalls.content)

\* Two generations, a text then tool calls, answered in that order.
C10_Witness ==
    /\ pc = "done" /\ ~req[1].stream /\ calls.onData = 1
    /\ Len(body[1].choices) = 2
    /\ body[1].choices[1].finish_reason = "stop"
    /\ body[1].choices[2].finish_reason = "tool_calls"

-----------------------------------------------------------------------------
(***************************************************************************)
(* The one-shot responder and the assembler's limit on tool calls.         *)
(***************************************************************************)
\* A one-shot request passed the validation and its responder returned.
OneShotRan == req # Absent /\ ~req[1].stream /\ pc = "done" /\ calls.generator > 0

\* Generation e ended with an error, of the generator or of the assembler.
EntryFailed(e) ==
    e.out.errorCode # Absent \/ e.processed[1].errorCode # Absent

(* C11: in the one-shot responder an error of the generator or of the      *)
(* assembler at generation i ends the loop there (no generation follows    *)
(* it); onError is called exactly once, with the status and the message of *)
(* that first error, which become the response; onData is not called and   *)
(* the response holds no choice of the generations before i.  When every   *)
(* generation succeeds onData is called exactly once and onError never.    *)
C11_OneShotAllOrNothing ==
    OneShotRan =>
        /\ \A i \in 1..(Len(gen) - 1) : ~EntryFailed(gen[i])
        /\ calls.generator = Len(gen)
        /\ body # Absent
        /\ IF GenerationFailed
           THEN /\ calls.onError = 1
                /\ calls.onData = 0
                /\ statusCode = FailureCode
                /\ body = Some(ErrorBody("generation", FailureMessage))
                /\ "choices" \notin DOMAIN body[1]
           ELSE /\ calls.onData = 1
                /\ calls.onError = 0
                /\ statusCode = 200
                /\ "choices" \in DOMAIN body[1]
                /\ Len(gen) = params[1].numGenerations

\* Of two generations the first succeeded and the assembler refused the
\* second: the answer is its 400.
C11_Witness ==
    /\ OneShotRan /\ Len(gen) = 2
    /\ ~EntryFailed(gen[1]) /\ gen[2].out.errorCode = Absent
    /\ gen[2].processed[1].errorCode = Some(400)
    /\ statusCode = 400 /\ calls.onError = 1 /\ calls.onData = 0

\* JSON.stringify(allArgs).length of a payload of tool calls.
ToolArgsLength(payload) ==
    Len(StringifyArray([i \in 1..Len(payload.tool_calls) |->
                           payload.tool_calls[i].arguments]))

\* Generation e returned a non-empty list of tool calls whose serialized
\* arguments are longer than maxTokens.
OverLimit(e, maxTokens) ==
    /\ e.out.errorCode = Absent
    /\ e.out.contentOrToolCalls.hasToolCalls
    /\ e.out.contentOrToolCalls.tool_calls # <<>>
    /\ maxTokens # Absent
    /\ ToolArgsLength(e.out.contentOrToolCalls) > maxTokens[1]

(* C12: when a generation, whatever its index, returns a non-empty list of *)
(* tool calls whose serialized arguments are longer than the max_tokens    *)
(* the handler passes on, the assembler reports the 400 max-tokens error,  *)
(* no generation follows, the response is that 400, and no chunk is        *)
(* written and no choice returned, when streaming and when not.            *)
C12_ToolCallsOverLimit ==
    \A i \in DOMAIN gen :
        OverLimit(gen[i], params[1].maxTokens) =>
            /\ i = Len(gen)
            /\ gen[i].processed[1].errorCode = Some(400)
            /\ gen[i].processed[1].errorMessage = MaxTokensMessage
            /\ pc = "done"
            /\ frames = <<>>
            /\ calls.onChunk = 0 /\ calls.onCompletion = 0 /\ calls.onData = 0
            /\ calls.onError = 1
            /\ statusCode = 400
            /\ body = Some(ErrorBody("generation", MaxTokensMessage))

\* The second of two generations returned tool calls too long for
\* max_tokens, after a first that succeeded.
C12_Witness ==
    /\ gen # <<>> /\ OverLimit(gen[Len(gen)], params[1].maxTokens)
    /\ Len(gen) = 2 /\ ~req[1].stream /\ ~EntryFailed(gen[1])
    /\ statusCode = 400

-----------------------------------------------------------------------------
(***************************************************************************)
(* The parameters the handler checks and passes on.                        *)
(***************************************************************************)
\* The answer is a rejection of the request.
Rejection ==
    statusCode \in {400, 401} /\ body # Absent /\ body[1].kind = "error"

\* No responder was called: nothing was generated, written or passed on.
NotGenerated == calls = NoCalls /\ gen = <<>> /\ frames = <<>> /\ params = Absent

\* A list stop as it is, a scalar stop as a list of one, none as the empty list.
StopAsStated(stop) ==
    IF stop.kind = "list" THEN stop.val
    ELSE IF stop.kind = "scalar" THEN <<stop.val[1]>>
    ELSE <<>>

(* C15 as stated: a request whose stop is a list of more than 4 entries is *)
(* rejected and reaches no responder; every scalar stop is passed on as a  *)
(* list of that one element, and an absent stop as the empty list.         *)
C15_ScalarStopCoerced ==
    req # Absent =>
        /\ (req[1].stop.kind = "list" /\ Len(req[1].stop.val) > 4) =>
               (NotGenerated /\ (pc = "done" => Rejection))
        /\ params # Absent => params[1].stopSequences = StopAsStated(req[1].stop)

(* C15 as amended: a request whose stop is a list of more than 4 entries   *)
(* is rejected and reaches no responder; a scalar stop other than the      *)
(* empty string is passed on as a list of that one element, a list of at   *)
(* most 4 entries as it is, and an absent stop or the empty string as the  *)
(* empty list.                                                             *)
C15_StopCoerced ==
    req # Absent =>
        /\ (req[1].stop.kind = "list" /\ Len(req[1].stop.val) > 4) =>
               (NotGenerated /\ (pc = "done" => Rejection))
        /\ params # Absent =>
               params[1].stopSequences =
                   IF req[1].stop.kind = "scalar" /\ req[1].stop.val[1] = <<>>
                   THEN <<>> ELSE StopAsStated(req[1].stop)

\* A request with a list of 5 stop sequences, otherwise valid, was answered
\* 400 by the stop check.
C15_Witness ==
    /\ pc = "done" /\ req[1].stop.kind = "list" /\ Len(req[1].stop.val) = 5
    /\ statusCode = 400 /\ body[1].field = "stop" /\ NotGenerated

\* The request has a structured tool_choice whose function name is that of
\* no tool of its tool list, or it has such a name and no tool list.
NamesNoTool(b) ==
    /\ b.tool_choice.kind = "object"
    /\ b.tool_choice.hasType /\ b.tool_choice.hasFunction /\ b.tool_choice.hasName
    /\ \/ b.tools = Absent
       \/ \A i \in DOMAIN b.tools[1] : b.tools[1][i].function.name # b.tool_choice.name

(* C16: an authorized request with a structured tool_choice whose function *)
(* name matches no tool of the tool list, the list being absent or empty   *)
(* included, is answered 400 and reaches no responder.                     *)
C16_UnknownToolRejected ==
    (pc = "done" /\ req[1].auth /\ NamesNoTool(req[1])) =>
        (statusCode = 400 /\ NotGenerated)

\* response_format has type json_schema and no json_schema payload.
SchemaMissing(b) ==
    /\ b.response_format.kind = "object" /\ b.response_format.hasType
    /\ b.response_format.type = "json_schema" /\ ~b.response_format.hasSchema

(* C17: an authorized request whose response_format has type json_schema   *)
(* and no json_schema payload is answered 400 and reaches no responder;    *)
(* the JSON-output mode passed on is on exactly when the type is           *)
(* json_object, or json_schema with a payload.                             *)
C17_SchemaRequired ==
    /\ (pc = "done" /\ req[1].auth /\ SchemaMissing(req[1])) =>
           (statusCode = 400 /\ NotGenerated)
    /\ params # Absent =>
           params[1].isJsonOutput =
               /\ req[1].response_format.kind = "object"
               /\ req[1].response_format.hasType
               /\ \/ req[1].response_format.type = "json_object"
                  \/ /\ req[1].response_format.type = "json_schema"
                     /\ req[1].response_format.hasSchema

(* C18: in a one-shot response the completion_tokens of usage are the      *)
(* completion tokens of the last generation only (the length of its final  *)
(* content, or of its serialized tool-call arguments), prompt_tokens are   *)
(* the lengths of the messages' texts plus the length of the serialized    *)
(* tool definitions, and total_tokens is the sum of the two.               *)
C18_UsageOfLastGeneration ==
    (pc = "done" /\ ~req[1].stream /\ calls.onData = 1) =>
        LET usage  == body[1].usage
            last   == gen[Len(gen)]
            choice == body[1].choices[Len(body[1].choices)]
        IN  /\ usage.completion_tokens = last.processed[1].completionTokens
            /\ usage.completion_tokens =
                   IF choice.message.tool_calls # Absent
                   THEN ToolArgsLength(last.out.contentOrToolCalls)
                   ELSE Len(choice.message.content[1])
            /\ usage.prompt_tokens = PromptTokens(req[1].messages, req[1].tools)
            /\ (req[1].messages = BaseRequest.messages /\ req[1].tools = Absent) =>
                   usage.prompt_tokens = 2
            /\ (req[1].messages = BaseRequest.messages /\ req[1].tools = Some(<<ToolF>>)) =>
                   usage.prompt_tokens = 2 + 45
            /\ usage.total_tokens = usage.prompt_tokens + usage.completion_tokens

\* Two generations of 3 and of 5 completion tokens: the usage counts 5.
C18_Witness ==
    /\ pc = "done" /\ ~req[1].stream /\ calls.onData = 1 /\ Len(gen) = 2
    /\ gen[1].processed[1].completionTokens = 3
    /\ gen[2].processed[1].completionTokens = 5
    /\ body[1].usage.completion_tokens = 5
    /\ body[1].usage.prompt_tokens = 2
    /\ body[1].usage.total_tokens = 7

\* The request asks for the usage-only chunk: stream and include_usage.
UsageChunkAsked(b) ==
    b.stream /\ b.stream_options # Absent /\ b.stream_options[1].include_usage

(* C19: a request that sets stream_options while stream is not true        *)
(* reaches no responder and is rejected; the streaming responder is asked  *)
(* for the usage-only chunk exactly when stream is true and                *)
(* stream_options.include_usage is true.                                   *)
C19_StreamOptions ==
    req # Absent =>
        /\ (req[1].stream_options # Absent /\ ~req[1].stream) =>
               (NotGenerated /\ (pc = "done" => Rejection))
        /\ params # Absent =>
               /\ params[1].addExtraUsageOnlyChunk = UsageChunkAsked(req[1])
               /\ st # NoStream =>
                      st.addExtraUsageOnlyChunk = UsageChunkAsked(req[1])

\* A one-shot request with stream_options, otherwise valid, was answered
\* 400 by the stream_options check.
C19_Witness ==
    /\ pc = "done" /\ ~req[1].stream /\ req[1].stream_options # Absent
    /\ statusCode = 400 /\ body[1].field = "stream_options" /\ NotGenerated

(* C20: whenever a request passed the validation, the temperature, top_p,  *)
(* frequency penalty and presence penalty passed on are 0, 1, 0 and 0      *)
(* respectively for each of them the request omits.                        *)
C20_Defaults ==
    params # Absent =>
        /\ req[1].temperature = Absent => params[1].temperature = 0
        /\ req[1].top_p = Absent => params[1].topP = 1
        /\ req[1].frequency_penalty = Absent => params[1].frequencyPenalty = 0
        /\ req[1].presence_penalty = Absent => params[1].presencePenalty = 0

\* A request that sets none of the four knobs was passed on with 0, 1, 0, 0
\* and generated.
C20_Witness ==
    /\ params # Absent /\ calls.generator > 0
    /\ req[1].temperature = Absent /\ req[1].top_p = Absent
    /\ req[1].frequency_penalty = Absent /\ req[1].presence_penalty = Absent
    /\ params[1].temperature = 0 /\ params[1].topP = 1
    /\ params[1].frequencyPenalty = 0 /\ params[1].presencePenalty = 0

-----------------------------------------------------------------------------
(***************************************************************************)
(* The turns of the responders.  A step of the state machine is one turn   *)
(* of the event loop: the code of a step runs without yielding.            *)
(***************************************************************************)
(* C21 as stated: a turn writes at most one chunk, a content chunk or the  *)
(* usage-only chunk, so that control is yielded between any two chunks.    *)
C21_YieldBetweenAllChunks ==
    [][Len(frames') <= Len(frames) + 1]_vars

(* C21 as amended: a turn writes at most one content chunk, so control is  *)
(* yielded between any two content chunks and a close can be observed      *)
(* there; the usage-only chunk is written in the turn of the last content  *)
(* chunk, right after it and without a yield; [DONE] is written in a turn  *)
(* of its own.                                                             *)
C21_YieldBetweenContentChunks ==
    [][/\ Len(ContentFrames') <= Len(ContentFrames) + 1
       /\ Len(frames') <= Len(frames) + 2
       /\ Len(frames') = Len(frames) + 2 =>
              /\ IsContentChunk(frames'[Len(frames) + 1])
              /\ frames'[Len(frames) + 1].chunk.choices[1].finish_reason # Absent
              /\ IsUsageOnlyChunk(frames'[Len(frames) + 2])
       /\ NumDone' > NumDone => Len(frames') = Len(frames) + 1]_vars

\* The transport was closed between the two content chunks of a stream and
\* the next turn is still to come.
C21_Witness ==
    /\ StreamSucceeded /\ pc = "streaming" /\ destroyed /\ responseClosed
    /\ Len(st.chunks) = 2 /\ st.chunkIndex = 1 /\ Len(frames) = 1

(* C22 as stated: every one of the N generation calls of a one-shot        *)
(* request is issued, and the response is composed after all N returned.   *)
C22_AllCallsIssued ==
    OneShotRan => (calls.generator = params[1].numGenerations /\ body # Absent)

(* C22 as amended: the N generation calls are made one after the other in  *)
(* index order within one turn; call i + 1 is made only when call i and    *)
(* its assembly succeeded, so after an error at generation i exactly i + 1 *)
(* calls were made; the response is composed after the N-th call when all  *)
(* succeeded, and is the error otherwise.                                  *)
C22_CallsInSequence ==
    OneShotRan =>
        LET N == params[1].numGenerations
            failures == {i \in DOMAIN gen : EntryFailed(gen[i])}
        IN  /\ calls.generator = Len(gen)
            /\ Len(gen) <= N
            /\ failures \subseteq {Len(gen)}
            /\ failures = {} <=> (Len(gen) = N /\ statusCode = 200)
            /\ failures # {} => statusCode = FailureCode

\* The first of two generations failed: one call was made, not two.
C22_Witness ==
    /\ OneShotRan /\ params[1].numGenerations = 2
    /\ calls.generator = 1 /\ EntryFailed(gen[1]) /\ statusCode = FailureCode

(* C23: a stream of a tool-call result with k calls has k chunks; the j-th *)
(* content chunk written carries tool call j of the payload with index j   *)
(* and no content, and all of them carry the same call id.  A stream of a  *)
(* text result, the empty text included, has one chunk, whose content is   *)
(* the whole assembled text followed by one space.  A stream that was not  *)
(* closed wrote all its chunks.                                            *)
C23_ChunkPartition ==
    StreamSucceeded =>
        LET payload == Assembled.contentOrToolCalls
            k == Len(payload.tool_calls)
        IN  /\ (pc = "done" /\ ~destroyed) => Len(ContentFrames) = Len(st.chunks)
            /\ IF payload.hasToolCalls /\ k > 0
               THEN /\ Len(st.chunks) = k
                    /\ Len(ContentFrames) <= k
                    /\ \A j \in 1..Len(ContentFrames) :
                          LET delta == ContentFrames[j].chunk.choices[1].delta
                          IN  /\ delta.content = Absent
                              /\ Len(delta.tool_calls[1]) = 1
                              /\ delta.tool_calls[1][1].index = j - 1
                              /\ delta.tool_calls[1][1].function.name
                                     = payload.tool_calls[j].name
                              /\ delta.tool_calls[1][1].function.arguments
                                     = payload.tool_calls[j].arguments
                              /\ delta.tool_calls[1][1].id
                                     = ContentFrames[1].chunk.choices[1].delta.tool_calls[1][1].id
               ELSE /\ Len(st.chunks) = 1
                    /\ Len(ContentFrames) <= 1
                    /\ \A j \in 1..Len(ContentFrames) :
                          LET delta == ContentFrames[j].chunk.choices[1].delta
                          IN  /\ delta.tool_calls = Absent
                              /\ delta.content = Some(payload.content \o <<" ">>)

\* Both chunks of a stream of two tool calls were written, f then g.
C23_Witness ==
    /\ StreamSucceeded /\ Len(st.chunks) = 2 /\ Len(ContentFrames) = 2
    /\ ContentFrames[1].chunk.choices[1].delta.tool_calls[1][1].function.name = "f"
    /\ ContentFrames[2].chunk.choices[1].delta.tool_calls[1][1].function.name = "g"
    /\ ContentFrames[2].chunk.choices[1].delta.tool_calls[1][1].index = 1

(* C28: every choice of a one-shot response has exactly one of             *)
(* message.content and message.tool_calls non-null; its finish_reason is   *)
(* tool_calls exactly when tool_calls is non-null, and stop or length      *)
(* otherwise; a payload whose tool_calls list is empty or null is handled  *)
(* as a text response.                                                     *)
C28_ContentXorToolCalls ==
    (OneShotRan /\ calls.onData = 1) =>
        \A i \in DOMAIN body[1].choices :
            LET message == body[1].choices[i].message
                reason  == body[1].choices[i].finish_reason
                payload == gen[i].out.contentOrToolCalls
            IN  /\ (message.content # Absent) # (message.tool_calls # Absent)
                /\ reason \in {"tool_calls", "stop", "length"}
                /\ reason = "tool_calls" <=> message.tool_calls # Absent
                /\ message.tool_calls # Absent => Len(message.tool_calls[1]) > 0
                /\ Len(payload.tool_calls) = 0 =>
                       /\ message.tool_calls = Absent
                       /\ message.content
                              = Some(gen[i].processed[1].contentOrToolCalls.content)
                /\ Len(payload.tool_calls) > 0 =>
                       Len(message.tool_calls[1]) = Len(payload.tool_calls)

\* The generator returned a payload with the key tool_calls and no tool
\* call in it: the choice is its text.
C28_Witness ==
    /\ OneShotRan /\ calls.onData = 1
    /\ Len(body[1].choices) = 1
    /\ gen[1].out.contentOrToolCalls.hasToolCalls
    /\ Len(gen[1].out.contentOrToolCalls.tool_calls) = 0
    /\ body[1].choices[1].message.content = Some(<<"a", "b", "c">>)
    /\ body[1].choices[1].message.tool_calls = Absent
    /\ body[1].choices[1].finish_reason = "stop"

\* What a frame is, and what the frames of the stream are when none is
\* held back: its content chunks, the usage-only chunk if asked, [DONE].
FrameKind(f) ==
    IF IsDone(f) THEN "done"
    ELSE IF IsUsageOnlyChunk(f) THEN "usage"
    ELSE IF IsContentChunk(f) THEN "content" ELSE "other"
ExpectedKinds ==
    [i \in 1..NumChunks |-> "content"]
    \o (IF IncludeUsage THEN <<"usage">> ELSE <<>>)
    \o <<"done">>

\* Content frame f carries chunk i (from 1) of the assembled payload.
CarriesChunk(f, i) ==
    LET delta   == f.chunk.choices[1].delta
        payload == Assembled.contentOrToolCalls
    IN  IF IsToolResponse(payload)
        THEN /\ delta.tool_calls # Absent
             /\ delta.tool_calls[1][1].index = i - 1
             /\ delta.tool_calls[1][1].function.name = payload.tool_calls[i].name
             /\ delta.tool_calls[1][1].function.arguments = payload.tool_calls[i].arguments
        ELSE delta.content = Some(payload.content \o <<" ">>)

(* C30: at every moment of a stream, whenever the transport may close, the *)
(* frames written so far are a prefix of [content chunk 0, ..., content    *)
(* chunk k-1, usage-only chunk if requested, [DONE]]: no frame is skipped  *)
(* or reordered, [DONE] is written only if every chunk before it was, and  *)
(* the response is ended only after [DONE].                                *)
C30_FramesArePrefix ==
    StreamRequested =>
        IF StreamSucceeded
        THEN /\ Len(frames) <= Len(ExpectedKinds)
             /\ \A i \in DOMAIN frames :
                    /\ FrameKind(frames[i]) = ExpectedKinds[i]
                    /\ FrameKind(frames[i]) = "content" => CarriesChunk(frames[i], i)
             /\ writableEnded => Len(frames) = Len(ExpectedKinds)
        ELSE frames = <<>>

\* A stream of two tool calls with the usage-only chunk was closed before
\* [DONE]: the three chunks are there, [DONE] is not, the response not ended.
C30_Witness ==
    /\ StreamSucceeded /\ pc = "done" /\ destroyed /\ ~writableEnded
    /\ NumChunks = 2 /\ IncludeUsage
    /\ Len(frames) = 3 /\ IsUsageOnlyChunk(frames[3])
    /\ calls.onCompletion = 1

(* C31: for every streaming request whose generation succeeds the emission *)
(* loop terminates: after finitely many turns the completion callback has  *)
(* been called exactly once and no turn is scheduled any more, and it      *)
(* stays so, whether or not the transport was closed in the meantime.      *)
C31_EmissionTerminates ==
    StreamSucceeded ~> [](pc = "done" /\ calls.onCompletion = 1)

\* A stream of one text chunk was closed after its first turn: the second
\* turn called the completion callback and scheduled nothing.
C31_Witness ==
    /\ StreamSucceeded /\ pc = "done" /\ destroyed /\ ~writableEnded
    /\ NumChunks = 1 /\ ~IncludeUsage
    /\ Len(frames) = 1 /\ calls.onChunk = 1 /\ calls.onCompletion = 1

-----------------------------------------------------------------------------
(***************************************************************************)
(* Streams in progress together.                                           *)
(***************************************************************************)
\* The frames closure s writes when none is held back.
FramesOf(s) ==
    [i \in 1..Len(s.chunks) |->
        ChunkFrame(buildResponsePart(s.model, s.id, s.chunks, i - 1,
                                     s.areTheseToolChunks, s.finishReason, Absent))]
    \o (IF s.addExtraUsageOnlyChunk
        THEN <<ChunkFrame(buildResponsePart(s.model, s.id, s.chunks, -1,
                              s.areTheseToolChunks, s.finishReason,
                              Some(Usage(s.promptTokens, s.completionTokens))))>>
        ELSE <<>>)
    \o <<DoneFrame>>

IsPrefix(a, b) == Len(a) <= Len(b) /\ a = SubSeq(b, 1, Len(a))

(* C29: when several streaming requests are in progress and their turns    *)
(* interleave in any order, every chunk written to the transport of a      *)
(* request, the usage-only chunk included, carries the stream id of that   *)
(* request, and the chunks of a request are on its transport in its own    *)
(* chunk order; the position and the content of a stream are not touched   *)
(* by another stream.                                                      *)
C29_StreamsIndependent ==
    \A k \in Requests :
        LET s == streams[k]
        IN  IF s.own = NoStream
            THEN s.res.frames = <<>>
            ELSE /\ \A i \in DOMAIN s.res.frames :
                        s.res.frames[i].kind = "chunk" =>
                            s.res.frames[i].chunk.id = s.own.id
                 /\ IsPrefix(s.res.frames, FramesOf(s.own))
                 /\ s.st = [s.own EXCEPT !.chunkIndex = s.st.chunkIndex]
                 /\ s.st.chunkIndex \in 1..Len(s.own.chunks)
                 /\ ~s.res.destroyed =>
                        Len(SelectSeq(s.res.frames, IsContentChunk)) = s.st.chunkIndex

\* Two streams with different ids, each of two tool calls and the usage-only
\* chunk: the first has written its first chunk, the second all its frames.
C29_Witness ==
    /\ streams[1].pc = "streaming" /\ streams[2].pc = "done"
    /\ streams[1].own.id # streams[2].own.id
    /\ Len(streams[1].own.chunks) = 2 /\ Len(streams[2].own.chunks) = 2
    /\ Len(streams[1].res.frames) = 1
    /\ Len(streams[2].res.frames) = 4
    /\ streams[2].res.writableEnded

\* The requests that were received and whose exchange has not ended: the
\* response has not finished and the peer has not closed the connection.
OpenExchanges ==
    {k \in Requests : /\ streams[k].pc # "idle"
                      /\ ~streams[k].finished
                      /\ ~streams[k].res.destroyed}

(* C32: the in-flight counter of the process is never negative and always  *)
(* equals the number of requests that were received and whose exchange has *)
(* not ended yet (response finished, or connection closed by the peer); it *)
(* is 0 again once every request has ended, streams cancelled by a         *)
(* disconnect of the client included.                                      *)
C32_InFlightCountsOpenExchanges ==
    /\ inFlightRequests >= 0
    /\ inFlightRequests = Cardinality(OpenExchanges)

-----------------------------------------------------------------------------
(***************************************************************************)
(* The embeddings endpoint.                                                *)
(***************************************************************************)
\* A request that passes every check made before the input is looked at,
\* with an array input of which some item is over its limit.
SomeItemOverLimit ==
    /\ embedding # Absent
    /\ embedding[1].request.auth
    /\ embedding[1].request.model = "mock-embedding"
    /\ embedding[1].request.dimensions # Some(-1)
    /\ embedding[1].request.input.kind \in {"strings", "arrays"}
    /\ \E idx \in DOMAIN embedding[1].request.input.items :
           ItemsOverLimit(embedding[1].request.input)[idx]

(* C33: a request to POST /v1/embeddings with an array input of which some *)
(* element is over its limit (a string of more than maxInputTokens words,  *)
(* an array of more than maxDimensions integers) receives exactly one      *)
(* response, a 400, and no embedding is generated for it.                  *)
C33_OverLimitItemRejected ==
    SomeItemOverLimit =>
        /\ embedding[1].handled.res.statusCode = 400
        /\ embedding[1].handled.res.writableEnded
        /\ embedding[1].handled.generated = 0

-----------------------------------------------------------------------------
(***************************************************************************)
(* The content functions.                                                  *)
(***************************************************************************)
\* The function fn was applied.
Applied(fn) == applied # Absent /\ applied[1].fn = fn

\* The text the applied function was given, and the text it returned.
ContentGiven == applied[1].payload.content
ContentReturned == applied[1].result.contentOrToolCalls.content

(* C13: the assembler, given a text payload, no stop sequences, frequency  *)
(* and presence penalty 0 and max_tokens absent or at least the length of  *)
(* the content, returns the content unchanged, character for character,    *)
(* and the finish reason stop.                                             *)
C13_RoundTrip ==
    ( /\ Applied("processContentOrToolCalls")
      /\ ~IsToolResponse(applied[1].payload)
      /\ applied[1].stopSequences = Some(<<>>)
      /\ applied[1].frequencyPenalty = 0
      /\ applied[1].presencePenalty = 0
      /\ \/ applied[1].maxTokens = Absent
         \/ applied[1].maxTokens[1] >= Len(ContentGiven) ) =>
        /\ ContentReturned = ContentGiven
        /\ applied[1].result.finishReason = "stop"

\* The 0-based positions at which t occurs in s.
Occurrences(s, t) ==
    {i \in 0..(Len(s) - Len(t)) : \A k \in 1..Len(t) : s[i + k] = t[k]}

\* The positions at which any stop sequence of the list occurs in content.
StopPositions(content, list) ==
    UNION {Occurrences(content, list[k]) : k \in DOMAIN list}

(* C14: applyStopSequences(content, S) returns content when S is null,     *)
(* empty, or holds no sequence that occurs in content; otherwise it        *)
(* returns the prefix of content that ends just before the earliest        *)
(* position at which any sequence of S occurs, which is the shortest of    *)
(* the truncations at the first occurrences of the sequences that occur.   *)
C14_ShortestTruncation ==
    Applied("applyStopSequences") =>
        LET S == applied[1].stopSequences
            at == IF S = Absent THEN {} ELSE StopPositions(ContentGiven, S[1])
        IN  IF at = {}
            THEN ContentReturned = ContentGiven
            ELSE /\ Len(ContentReturned) \in at
                 /\ \A i \in at : Len(ContentReturned) <= i
                 /\ ContentReturned = SubSeq(ContentGiven, 1, Len(ContentReturned))

\* applyStopSequences("hello world", ["world", "o w"]) returned "hell".
C14_Witness ==
    /\ Applied("applyStopSequences")
    /\ ContentGiven = HelloWorld
    /\ applied[1].stopSequences = Some(<<<<"w", "o", "r", "l", "d">>, <<"o", " ", "w">>>>)
    /\ ContentReturned = <<"h", "e", "l", "l">>

(* C24: for a text payload the finish reason of the assembler is length    *)
(* exactly when the final content has another length than the original    *)
(* content, and stop otherwise; the completion token count is the length   *)
(* of the final content.                                                   *)
C24_FinishReasonByLength ==
    (Applied("processContentOrToolCalls") /\ ~IsToolResponse(applied[1].payload)) =>
        /\ applied[1].result.errorCode = Absent
        /\ applied[1].result.finishReason \in {"length", "stop"}
        /\ applied[1].result.finishReason = "length"
               <=> Len(ContentReturned) # Len(ContentGiven)
        /\ applied[1].result.completionTokens = Len(ContentReturned)

\* "a b" clipped to one character: "a", length, one token.
C24_Witness ==
    /\ Applied("processContentOrToolCalls")
    /\ ContentGiven = <<"a", " ", "b">>
    /\ applied[1].maxTokens = Some(1)
    /\ ContentReturned = <<"a">>
    /\ applied[1].result.finishReason = "length"
    /\ applied[1].result.completionTokens = 1

(* C25: for every successful generation with max_tokens set, the           *)
(* completion token count never exceeds max_tokens, for a text (clipped    *)
(* first, never lengthened after) and for accepted tool calls alike.       *)
C25_TokensWithinMaxTokens ==
    ( /\ Applied("processContentOrToolCalls")
      /\ applied[1].maxTokens # Absent
      /\ applied[1].result.errorCode = Absent ) =>
        applied[1].result.completionTokens <= applied[1].maxTokens[1]

\* The white-space-delimited words of a text.
Words(text) == SelectSeq(split(text), LAMBDA w : w # <<>>)

(* C26: applyPresencePenalty with a penalty in (0, 2] on non-empty content *)
(* returns, joined by single spaces and in the original order, exactly the *)
(* words that occur once in the content; with a penalty <= 0 no word is    *)
(* removed.                                                                *)
C26_PresenceDropsRepeatedWords ==
    (Applied("applyPresencePenalty") /\ ContentGiven # <<>>) =>
        LET words == Words(ContentGiven)
            presencePenalty == applied[1].presencePenalty
        IN  /\ (presencePenalty > 0 /\ presencePenalty <= 2) =>
                   ContentReturned =
                       join(SelectSeq(words, LAMBDA w : CountExact(words, w) = 1))
            /\ presencePenalty <= 0 => Words(ContentReturned) = words

\* The words of a list at the positions of a set, in the order of the list.
WordsAt(words, positions) ==
    LET at == SelectSeq([i \in 1..Len(words) |-> i], LAMBDA i : i \in positions)
    IN  [j \in 1..Len(at) |-> words[at[j]]]

\* The positions of the words whose lowercased form was not seen before.
FirstOccurrences(words) ==
    {i \in 1..Len(words) : CountLower(words, i, words[i]) = 1}

(* C27: applyFrequencyPenalty can drop an occurrence of a word only if the *)
(* penalty is positive and the occurrence is a repeat: for every outcome   *)
(* of the random source the first occurrence of each word is kept, with a  *)
(* non-positive penalty every word is kept, and the kept words keep their  *)
(* order.                                                                  *)
C27_OnlyRepeatsDropped ==
    Applied("applyFrequencyPenalty") =>
        LET words == split(ContentGiven)
            frequencyPenalty == applied[1].frequencyPenalty
        IN  /\ \E kept \in SUBSET (1..Len(words)) :
                   /\ FirstOccurrences(words) \subseteq kept
                   /\ Words(ContentReturned) = Words(join(WordsAt(words, kept)))
            /\ frequencyPenalty <= 0 => Words(ContentReturned) = Words(ContentGiven)

====
